---- MODULE Spec2Model ----
(***************************************************************************)
(* Froestry web client: the DataService singleton (dataset cache, bundle   *)
(* loaders, statistics snapshot, layer styles) of                          *)
(* src/web/src/services/aiLocationService.js, with the startup flow of     *)
(* src/web/src/components/MainLayout.jsx that drives it.                   *)
(*                                                                         *)
(* Execution model: JavaScript runs one task at a time.  The synchronous   *)
(* prefix of an async call (up to its first pending await) is one step;    *)
(* the settling of one fetch, together with every continuation that its    *)
(* promise wakes (microtasks run to completion before the next task), is   *)
(* one step.  Between `await fetch` and `await response.json()` the code   *)
(* touches no shared state, so both awaits of one request settle in one    *)
(* step whose input is the outcome of the whole request.                   *)
(***************************************************************************)
EXTENDS Integers, Sequences, FiniteSets, TLC

VARIABLES
    cache,        \* DataService.cache: filename -> payload (NoEntry when the Map has no key)
    netCount,     \* number of fetch() calls issued so far, per filename
    calls,        \* the DataService calls of the session, in the order they were started
    styleArgs,    \* the last getLayerStyle/getFeatureStyle call and its arguments
    styleResult,  \* value returned by the last LayerStyleResolver call
    styleLog,     \* the LayerStyleResolver calls that returned so far, with their results
    csvText,      \* the text handed to parseCSV
    csvRecords,   \* value returned by parseCSV
    aiCalls,      \* the getTreeLocations calls of the session, in the order they were started
    aiPosts,      \* number of POST requests issued to the AI endpoint
    mainLayout,       \* the state hooks of MainLayout
    loadDataCalls,    \* the calls the mount effect of MainLayout awaits (none before it ran)
    chatAssistant,    \* the state hooks of the mounted ChatAssistant
    postalCodeSearch, \* the state hooks of PostalCodeSearch
    dataExplorer,     \* the state hooks of the mounted DataExplorer
    uiEvent           \* the handler the last event ran, with its argument, when a
                      \* property speaks about that handler

vars == <<cache, netCount, calls, styleArgs, styleResult, styleLog, csvText, csvRecords,
          aiCalls, aiPosts, mainLayout, loadDataCalls, chatAssistant, postalCodeSearch,
          dataExplorer, uiEvent>>

\* the variables of the components
uiVars == <<mainLayout, loadDataCalls, chatAssistant, postalCodeSearch, dataExplorer,
            uiEvent>>

\* the variables of the LayerStyleResolver harness
styleVars == <<styleArgs, styleResult, styleLog>>

\* the variables of AILocationService
aiVars == <<aiCalls, aiPosts>>

\* the variables of parseCSV's harness
csvVars == <<csvText, csvRecords>>

-----------------------------------------------------------------------------
(* Bounds of the model *)

\* DataService calls started in one session
MaxCalls == 2

\* gets (loadGeoJSON or loadCSV invocations) started in one session
MaxGets == 6

\* largest final_score of a feature handed to getFeatureStyle
MaxFinalScore == 100

-----------------------------------------------------------------------------
(* JavaScript values *)

Undefined == [t |-> "undefined"]
Null == [t |-> "null"]
Num(n) == [t |-> "number", n |-> n]
Str(s) == [t |-> "string", s |-> s]

\* a value is falsy when it is undefined, null, 0 or the empty string
Truthy(v) ==
    IF "t" \notin DOMAIN v THEN TRUE
    ELSE /\ v.t \notin {"undefined", "null"}
         /\ ~(v.t = "number" /\ v.n = 0)
         /\ ~(v.t = "string" /\ "s" \in DOMAIN v /\ v.s = "")

\* Members every object literal inherits from Object.prototype: obj[key] finds
\* them when key is not an own property.  Each is a function or an object.
ObjectPrototype ==
    [k \in {"constructor", "toString", "__proto__"} |->
        IF k = "constructor" THEN [t |-> "function", s |-> "function Object() { [native code] }"]
        ELSE IF k = "toString" THEN [t |-> "function", s |-> "function toString() { [native code] }"]
        ELSE [t |-> "object", s |-> "[object Object]"]]

\* obj[key] on an object literal whose own properties are the function `own`
PropertyGet(own, key) ==
    IF key \in DOMAIN own THEN own[key]
    ELSE IF key \in DOMAIN ObjectPrototype THEN ObjectPrototype[key]
    ELSE Undefined

-----------------------------------------------------------------------------
(* Dataset payloads *)

Feature(geometry, properties) == [geometry |-> geometry, properties |-> properties]
Scored(score) == Feature("Point", [t |-> "object", final_score |-> Num(score)])
Unscored(geometry) == Feature(geometry, [t |-> "object", final_score |-> Undefined])
NoProperties == Feature("Point", Null)

FeatureCollection(features) ==
    [t |-> "object", type |-> "FeatureCollection", features |-> features]

\* the payload loadGeoJSON returns when the request fails (line 134)
EmptyFeatureCollection == FeatureCollection(<< >>)

\* the payload loadCSV returns when the request fails (line 154)
EmptyRecords == [t |-> "array", items |-> << >>]

\* Map.has(key) is false
NoEntry == [t |-> "absent"]

-----------------------------------------------------------------------------
(* Tabular text: a string is a sequence of one-character strings *)

Chars(cs) == [t |-> "string", chars |-> cs]

Whitespace == {" ", "\n", "\t", "\r"}

RECURSIVE TrimStart(_)
TrimStart(cs) ==
    IF cs # << >> /\ Head(cs) \in Whitespace THEN TrimStart(Tail(cs)) ELSE cs

RECURSIVE TrimEnd(_)
TrimEnd(cs) ==
    IF cs # << >> /\ cs[Len(cs)] \in Whitespace
    THEN TrimEnd(SubSeq(cs, 1, Len(cs) - 1))
    ELSE cs

\* String.prototype.trim
Trim(cs) == TrimEnd(TrimStart(cs))

\* String.prototype.split(sep) for a one-character separator: "" splits to [""]
RECURSIVE Split(_, _)
Split(cs, sep) ==
    IF \E i \in 1..Len(cs) : cs[i] = sep
    THEN LET i == CHOOSE k \in 1..Len(cs) :
                      cs[k] = sep /\ \A m \in 1..(k - 1) : cs[m] # sep
         IN  <<SubSeq(cs, 1, i - 1)>> \o Split(SubSeq(cs, i + 1, Len(cs)), sep)
    ELSE <<cs>>

\* DataService.parseCSV: header line, then one object per following line; the
\* forEach assigns obj[header] = values[index], so a repeated header keeps the
\* value of its last column and a short line leaves undefined
parseCSV(text) ==
    LET lines == Split(Trim(text), "\n")
        headers == Split(lines[1], ",")
        Row(line) ==
            LET values == Split(line, ",")
            IN  [h \in {headers[i] : i \in 1..Len(headers)} |->
                    LET last == CHOOSE i \in 1..Len(headers) :
                                    /\ headers[i] = h
                                    /\ \A m \in (i + 1)..Len(headers) : headers[m] # h
                    IN  IF last <= Len(values) THEN Chars(values[last]) ELSE Undefined]
    IN  [t |-> "array", items |-> [k \in 1..(Len(lines) - 1) |-> Row(lines[k + 1])]]

\* no parseCSV call is made in this behaviour
NoParse ==
    /\ csvText = << >>
    /\ csvRecords = Undefined

\* no getTreeLocations call is made in this behaviour
NoQuery ==
    /\ aiCalls = << >>
    /\ aiPosts = 0

-----------------------------------------------------------------------------
(* Components: the values of their state hooks *)

\* a latitude/longitude pair; coordinates are kept in units of 1/10000 degree
LatLng(lat, lng) == [t |-> "array", items |-> <<lat, lng>>]

\* MainLayout.jsx lines 27-34
MainLayoutInitial ==
    [activeView |-> "dashboard",
     selectedLocation |-> Null,
     realData |-> Null,
     loading |-> TRUE,
     isSearchOpen |-> FALSE,
     mapCenter |-> LatLng(Num(491427), Num(92109)),
     mapZoom |-> 13,
     aiLocations |-> [t |-> "array", items |-> << >>]]

\* a component that is not rendered has no state
NotMounted == [t |-> "unmounted"]

\* PostalCodeSearch.jsx lines 23-27
\* (lines 23-27); topLocationsEffect is the position of the effect of lines
\* 30-54, which runs once realData has been set
PostalCodeSearchInitial ==
    [searchQuery |-> << >>,
     searchResults |-> << >>,
     selectedArea |-> Null,
     topLocations |-> << >>,
     topLocationsEffect |-> "idle"]

NoEvent == [name |-> "none", arg |-> Undefined, tick |-> 0]

\* the record of a handler run; tick alternates so that two runs of the same
\* handler with the same argument are two events
Event(name, arg) == [name |-> name, arg |-> arg, tick |-> 1 - uiEvent.tick]

\* ChatAssistant.jsx lines 9-18: the greeting is the only message
ChatAssistantInitial(instance) ==
    [instance |-> instance,
     message |-> << >>,
     isLoading |-> FALSE,
     messages |-> <<[id |-> 1, type |-> "assistant", content |-> "Hello!"]>>]

\* MainLayout.jsx lines 120-127: menuItems
Views == {"dashboard", "map", "data", "complete", "fresh", "chat"}

\* the page after its first render, before any effect or event
PageLoaded ==
    /\ mainLayout = MainLayoutInitial
    /\ loadDataCalls = << >>
    /\ chatAssistant = NotMounted
    /\ postalCodeSearch = PostalCodeSearchInitial
    /\ dataExplorer = NotMounted
    /\ uiEvent = NoEvent

-----------------------------------------------------------------------------
(* Datasets *)

\* the files loadMapLayers requests, in the order of its Promise.all
EssentialFiles ==
    <<"top_100.geojson", "top_100_fresh.geojson",
      "heat_priority_zones.geojson", "water_bodies.geojson">>

\* the registry of loadLargeDataset
datasets ==
    [allLocations |-> Str("all_locations.geojson"),
     scoredLocationsFresh |-> Str("scored_locations_fresh.geojson"),
     buildingsFresh |-> Str("exclusion_buildings_fresh.geojson"),
     roadsFresh |-> Str("exclusion_roads_fresh.geojson"),
     fire |-> Str("exclusion_fire.geojson"),
     trees |-> Str("exclusion_trees.geojson")]

\* a tabular file of the data directory
CsvFile == "top_100_tree_locations.csv"

\* every resource name a call of the model can pass to loadGeoJSON or loadCSV.
\* A value that is not a string (an inherited member reached through
\* datasets[name]) is keyed by its string conversion, which is also what the
\* template literal `/data/${filename}` requests.
Files ==
    {EssentialFiles[i] : i \in 1..Len(EssentialFiles)}
        \cup {datasets[n].s : n \in DOMAIN datasets}
        \cup {ObjectPrototype[k].s : k \in DOMAIN ObjectPrototype}
        \cup {CsvFile}

\* response bodies the static file server can answer with (2xx)
Top100 == FeatureCollection(<<Scored(85), Scored(80), Scored(62)>>)
Top100Unscored == FeatureCollection(<<Scored(85), Unscored("Point")>>)
Top100Malformed == FeatureCollection(<<Scored(85), NoProperties>>)
Top100Fresh == FeatureCollection(<<Scored(91), Scored(47)>>)
HeatZones == FeatureCollection(<<Unscored("Polygon")>>)
WaterBodies == FeatureCollection(<<Unscored("Polygon"), Unscored("Polygon")>>)
HeavyLayer == FeatureCollection(<<Scored(35), Unscored("Point")>>)
CsvText == [t |-> "text", chars |-> <<"a", ",", "b", "\n", "1", ",", "2", "\n", "3", ",", "4", "\n">>]

\* bodies of the session model: top_100.geojson is served in two versions, the
\* second with a feature that has no properties object
Bodies(file) ==
    IF file = "top_100.geojson" THEN {Top100, Top100Malformed}
    ELSE IF file = "top_100_fresh.geojson" THEN {Top100Fresh}
    ELSE IF file = "heat_priority_zones.geojson" THEN {HeatZones}
    ELSE IF file = "water_bodies.geojson" THEN {WaterBodies}
    ELSE IF file = CsvFile THEN {CsvText}
    ELSE IF file \in {datasets[n].s : n \in DOMAIN datasets} THEN {HeavyLayer}
    ELSE {}

\* bodies of the statistics model: well-formed, without features, with an
\* unscored feature, with a feature without properties, and the JSON text null
StatisticsBodies(file) ==
    IF file = "top_100.geojson"
    THEN {Top100, EmptyFeatureCollection, Top100Unscored, Top100Malformed, Null}
    ELSE IF file = "top_100_fresh.geojson" THEN {Top100Fresh, Null}
    ELSE Bodies(file)

\* what one request can end in: a 2xx response with a body that parses, a
\* non-2xx response, a rejected fetch, or a body that does not parse
FailureKinds == {"http_error", "network_error", "parse_error"}

OutcomesOf(bodies) ==
    {[kind |-> "ok", body |-> b] : b \in bodies}
        \cup {[kind |-> k, body |-> Undefined] : k \in FailureKinds}

Outcomes(file) == OutcomesOf(Bodies(file))

StatisticsOutcomes(file) == OutcomesOf(StatisticsBodies(file))

-----------------------------------------------------------------------------
(* DataService.loadGeoJSON and loadCSV *)

\* how a block of code ends: with a value, or by throwing
Returned(v) == [threw |-> FALSE, value |-> v]
Thrown == [threw |-> TRUE, value |-> Undefined]

\* how a pending get ends: the state of its promise, its value, and whether
\* cache.set(filename, value) ran
Settled(state, value, stored) == [state |-> state, value |-> value, stored |-> stored]

\* one get of a call: the promise loadGeoJSON/loadCSV returned.  fetched records
\* that the get called fetch(), failed that its request ended in a failure
\* outcome.
Get(file, format, state, fetched, failed, value) ==
    [file |-> file, format |-> format, state |-> state,
     fetched |-> fetched, failed |-> failed, value |-> value]

\* cache.has(filename)
Has(filename) == cache[filename] # NoEntry

\* lines 120-125 and 139-144: a cached payload is returned at once, otherwise
\* fetch(`/data/${filename}`) is issued and the call waits
GetStart(filename, format) ==
    IF Has(filename)
    THEN Get(filename, format, "fulfilled", FALSE, FALSE, cache[filename])
    ELSE Get(filename, format, "fetching", TRUE, FALSE, Undefined)

\* lines 125-129: await fetch, the response.ok test, await response.json()
loadGeoJSONTry(outcome) ==
    IF outcome.kind = "network_error" THEN Thrown
    ELSE IF outcome.kind = "http_error" THEN Thrown
    ELSE IF outcome.kind = "parse_error" THEN Thrown
    ELSE Returned(outcome.body)

\* faulty variants of the catch block: one caches the empty payload, one lets
\* the error escape
loadGeoJSONCatchCached == Settled("fulfilled", EmptyFeatureCollection, TRUE)

loadGeoJSONCatchRethrow == Settled("rejected", Undefined, FALSE)

\* lines 132-135
loadGeoJSONCatch == Settled("fulfilled", EmptyFeatureCollection, FALSE)

\* faulty variant: the payload is returned without cache.set
loadGeoJSONStoreSkipped(data) == Settled("fulfilled", data, FALSE)

\* lines 130-131: cache.set(filename, data); return data
loadGeoJSONStore(data) == Settled("fulfilled", data, TRUE)

loadGeoJSONResume(outcome) ==
    LET r == loadGeoJSONTry(outcome)
    IN  IF r.threw THEN loadGeoJSONCatch ELSE loadGeoJSONStore(r.value)

\* lines 144-149: await fetch, the response.ok test, await response.text(),
\* parseCSV(text)
loadCSVTry(outcome) ==
    IF outcome.kind = "network_error" THEN Thrown
    ELSE IF outcome.kind = "http_error" THEN Thrown
    ELSE IF outcome.kind = "parse_error" THEN Thrown
    ELSE Returned(parseCSV(outcome.body.chars))

\* lines 152-155
loadCSVCatch == Settled("fulfilled", EmptyRecords, FALSE)

\* lines 150-151
loadCSVStore(data) == Settled("fulfilled", data, TRUE)

loadCSVResume(outcome) ==
    LET r == loadCSVTry(outcome)
    IN  IF r.threw THEN loadCSVCatch ELSE loadCSVStore(r.value)

-----------------------------------------------------------------------------
(* DataService.loadMapLayers, loadLargeDataset, loadStatistics *)

\* faulty variant: the destructuring takes the last two payloads in the wrong order
loadMapLayersReturnSwapped(gets) ==
    [t |-> "object",
     topLocations |-> gets[1].value,
     topLocationsFresh |-> gets[2].value,
     heatPriorityZones |-> gets[4].value,
     waterBodies |-> gets[3].value,
     allLocations |-> Null,
     buildingsFresh |-> Null,
     fire |-> Null,
     roadsFresh |-> Null,
     trees |-> Null,
     scoredLocationsFresh |-> Null]

\* lines 183-195
loadMapLayersReturn(gets) ==
    [t |-> "object",
     topLocations |-> gets[1].value,
     topLocationsFresh |-> gets[2].value,
     heatPriorityZones |-> gets[3].value,
     waterBodies |-> gets[4].value,
     allLocations |-> Null,
     buildingsFresh |-> Null,
     fire |-> Null,
     roadsFresh |-> Null,
     trees |-> Null,
     scoredLocationsFresh |-> Null]

Nullish(v) == "t" \in DOMAIN v /\ v.t \in {"undefined", "null"}

RECURSIVE SumScores(_)
SumScores(scores) ==
    IF scores = << >> THEN 0 ELSE Head(scores).n + SumScores(Tail(scores))

MaxOf(scores) ==
    CHOOSE m \in {scores[i].n : i \in 1..Len(scores)} :
        \A i \in 1..Len(scores) : scores[i].n <= m

\* (num / den).toFixed(1) for num >= 0: the decimal string with one fraction
\* digit nearest to the quotient (the larger on a tie), kept as its count of tenths
ToFixed1(num, den) == [t |-> "string", fixed1 |-> (20 * num + den) \div (2 * den)]

\* NaN.toFixed(1)
NaNString == Chars(<<"N", "a", "N">>)

\* lines 270-284
StatisticsFallback ==
    [t |-> "object",
     stats |-> [totalLocations |-> Num(114982),
                freshLocations |-> Num(13882),
                topLocations |-> Num(100),
                topFreshLocations |-> Num(100),
                plantableArea |-> Str("11.50 km2"),
                freshPlantableArea |-> Str("1.39 km2"),
                topScore |-> Num(83),
                averageScore |-> Num(65),
                co2Reduction |-> Str("305t"),
                perfectLocations |-> Num(25)],
     rawData |-> Null]

\* lines 227-266, evaluated in source order: reading .features of null throws,
\* reading .final_score of a missing properties object throws
loadStatisticsTry(topLocations, topLocationsFresh) ==
    IF Nullish(topLocations) \/ Nullish(topLocationsFresh) THEN Thrown
    ELSE
    LET features == IF "features" \in DOMAIN topLocations
                    THEN topLocations.features ELSE << >>
        freshFeatures == IF "features" \in DOMAIN topLocationsFresh
                         THEN topLocationsFresh.features ELSE << >>
    IN  IF \E i \in 1..Len(features) : Nullish(features[i].properties) THEN Thrown
        ELSE
        LET topScores == [i \in 1..Len(features) |-> features[i].properties.final_score]
            allNumbers == \A i \in 1..Len(topScores) : topScores[i].t = "number"
            averageScore ==
                IF Len(topScores) > 0
                THEN IF allNumbers THEN ToFixed1(SumScores(topScores), Len(topScores))
                     ELSE NaNString
                ELSE Num(0)
            topScore ==
                IF Len(topScores) > 0
                THEN IF allNumbers THEN ToFixed1(MaxOf(topScores), 1) ELSE NaNString
                ELSE Num(0)
            perfect == {i \in 1..Len(topScores) :
                            topScores[i].t = "number" /\ topScores[i].n >= 80}
        IN  Returned(
              [t |-> "object",
               stats |-> [totalLocations |-> Num(114982),
                          freshLocations |-> Num(13882),
                          topLocations |-> Num(Len(features)),
                          topFreshLocations |-> Num(Len(freshFeatures)),
                          plantableArea |-> Str("11.50 km2"),
                          freshPlantableArea |-> Str("1.39 km2"),
                          topScore |-> topScore,
                          averageScore |-> averageScore,
                          co2Reduction |-> Str("305t"),
                          perfectLocations |-> Num(Cardinality(perfect))],
               rawData |-> [topLocations |-> topLocations,
                            topLocationsFresh |-> topLocationsFresh]])

\* Promise.all over the gets of a call
\* faulty variant: settles with the first get that settles (Promise.race)
PromiseRace(gets) ==
    IF \E i \in 1..Len(gets) : gets[i].state = "rejected" THEN "rejected"
    ELSE IF \E i \in 1..Len(gets) : gets[i].state = "fulfilled" THEN "fulfilled"
    ELSE "pending"

PromiseAll(gets) ==
    IF \E i \in 1..Len(gets) : gets[i].state = "rejected" THEN "rejected"
    ELSE IF \A i \in 1..Len(gets) : gets[i].state = "fulfilled" THEN "fulfilled"
    ELSE "pending"

\* faulty variant: no catch block, what the computation throws rejects the call
loadStatisticsNoCatch(gets) ==
    LET r == IF PromiseAll(gets) = "rejected" THEN Thrown
             ELSE loadStatisticsTry(gets[1].value, gets[2].value)
    IN  IF r.threw THEN Settled("rejected", Undefined, FALSE)
        ELSE Settled("fulfilled", r.value, FALSE)

\* lines 219-286: the try block awaits both gets and computes the snapshot;
\* whatever it throws is caught and answered with the fallback
loadStatisticsResume(gets) ==
    LET r == IF PromiseAll(gets) = "rejected" THEN Thrown
             ELSE loadStatisticsTry(gets[1].value, gets[2].value)
    IN  IF r.threw THEN Settled("fulfilled", StatisticsFallback, FALSE)
        ELSE Settled("fulfilled", r.value, FALSE)

-----------------------------------------------------------------------------
(* DataService.getLayerStyle and getFeatureStyle *)

\* lines 290-355; fillOpacity is kept in tenths
styles ==
    [allLocations |-> [color |-> "#FFD23F", fillColor |-> "#FFD23F", fillOpacity |-> 6, weight |-> 2, radius |-> 4],
     buildingsFresh |-> [color |-> "#ff4444", fillColor |-> "#ff4444", fillOpacity |-> 4, weight |-> 1],
     fire |-> [color |-> "#ff8800", fillColor |-> "#ff8800", fillOpacity |-> 3, weight |-> 2],
     roadsFresh |-> [color |-> "#888888", fillColor |-> "#888888", fillOpacity |-> 4, weight |-> 2],
     trees |-> [color |-> "#8B4513", fillColor |-> "#8B4513", fillOpacity |-> 4, weight |-> 1],
     heatPriorityZones |-> [color |-> "#ff0000", fillColor |-> "#ff0000", fillOpacity |-> 3, weight |-> 2],
     scoredLocationsFresh |-> [color |-> "#CCFF00", fillColor |-> "#CCFF00", fillOpacity |-> 8, weight |-> 2, radius |-> 6],
     topLocationsFresh |-> [color |-> "#ADFF2F", fillColor |-> "#ADFF2F", fillOpacity |-> 9, weight |-> 3, radius |-> 8],
     topLocations |-> [color |-> "#DC143C", fillColor |-> "#DC143C", fillOpacity |-> 9, weight |-> 4, radius |-> 10],
     waterBodies |-> [color |-> "#0066cc", fillColor |-> "#0066cc", fillOpacity |-> 5, weight |-> 1]]

\* line 357: styles[layerType] || styles.allLocations
getLayerStyle(layerType) ==
    LET style == PropertyGet(styles, layerType)
    IN  IF Truthy(style) THEN style ELSE styles.allLocations

\* the spread left out: only the two colours
SpreadWithColorOnly(baseStyle, color) ==
    [k \in {"color", "fillColor"} |-> color]

\* {...baseStyle, color, fillColor}: the own enumerable properties of baseStyle
\* (a function or Object.prototype has none), then the two colours
SpreadWithColor(baseStyle, color) ==
    LET own == IF "t" \in DOMAIN baseStyle THEN {} ELSE DOMAIN baseStyle
    IN  [k \in own \cup {"color", "fillColor"} |->
            IF k \in {"color", "fillColor"} THEN color ELSE baseStyle[k]]

\* the ladder with exclusive boundaries (> in place of >=)
getFeatureStyleExclusive(feature, layerType) ==
    LET baseStyle == getLayerStyle(layerType)
    IN  IF Truthy(feature.properties) /\ feature.properties.final_score # Undefined
        THEN LET final == feature.properties.final_score
                 score == IF final.t = "number" THEN final.n ELSE 0
                 color == IF score > 80 THEN "#DC143C"
                          ELSE IF score > 60 THEN "#FF6B35"
                          ELSE IF score > 40 THEN "#CCFF00"
                          ELSE "#90EE90"
             IN  SpreadWithColor(baseStyle, color)
        ELSE baseStyle

\* lines 361-382; a final_score of null compares as 0
getFeatureStyle(feature, layerType) ==
    LET baseStyle == getLayerStyle(layerType)
    IN  IF Truthy(feature.properties) /\ feature.properties.final_score # Undefined
        THEN LET final == feature.properties.final_score
                 score == IF final.t = "number" THEN final.n ELSE 0
                 color == IF score >= 80 THEN "#DC143C"
                          ELSE IF score >= 60 THEN "#FF6B35"
                          ELSE IF score >= 40 THEN "#CCFF00"
                          ELSE "#90EE90"
             IN  SpreadWithColor(baseStyle, color)
        ELSE baseStyle

\* layer names the components pass (RealMapView, CompleteMap, DataExplorer) and
\* other strings
LayerTypes ==
    DOMAIN styles \cup DOMAIN ObjectPrototype
        \cup {"roads", "water", "exclusionCombined", "greenSpaces", "plantable", "not_a_layer", ""}

StyledFeatures ==
    {Scored(n) : n \in 0..MaxFinalScore}
        \cup {Unscored("Point"), NoProperties,
              Feature("Point", [t |-> "object", final_score |-> Null])}

NoStyleCall == [op |-> "none", layerType |-> "", feature |-> Undefined]

\* a resolver call that has not returned yet
NotReturned == [t |-> "pending"]

StyleCalls ==
    {[op |-> "getLayerStyle", layerType |-> layerType, feature |-> Undefined] :
        layerType \in LayerTypes}
    \cup {[op |-> "getFeatureStyle", layerType |-> layerType, feature |-> feature] :
             layerType \in LayerTypes, feature \in StyledFeatures}

\* a returned resolver call: its arguments, its result and the files the cache
\* held when it ran
Logged(args, result) ==
    [args |-> args, result |-> result, cached |-> {f \in Files : cache[f] # NoEntry}]

GetLayerStyle ==
    /\ styleArgs.op = "getLayerStyle"
    /\ styleResult = NotReturned
    /\ styleResult' = getLayerStyle(styleArgs.layerType)
    /\ styleLog' = styleLog \cup {Logged(styleArgs, styleResult')}
    /\ UNCHANGED <<cache, netCount, calls, styleArgs, csvVars, aiVars, uiVars>>

\* faulty variant: writes the colour it chose into the feature
GetFeatureStyleMutating ==
    /\ styleArgs.op = "getFeatureStyle"
    /\ styleResult = NotReturned
    /\ styleResult' = getFeatureStyle(styleArgs.feature, styleArgs.layerType)
    /\ styleArgs' =
          IF Truthy(styleArgs.feature.properties)
                /\ styleArgs.feature.properties.final_score # Undefined
          THEN [styleArgs EXCEPT !.feature.properties =
                   [t |-> "object", final_score |-> @.final_score,
                    color |-> styleResult'.color]]
          ELSE styleArgs
    /\ styleLog' = styleLog \cup {Logged(styleArgs, styleResult')}
    /\ UNCHANGED <<cache, netCount, calls, csvVars, aiVars, uiVars>>

GetFeatureStyle ==
    /\ styleArgs.op = "getFeatureStyle"
    /\ styleResult = NotReturned
    /\ styleResult' = getFeatureStyle(styleArgs.feature, styleArgs.layerType)
    /\ styleLog' = styleLog \cup {Logged(styleArgs, styleResult')}
    /\ UNCHANGED <<cache, netCount, calls, styleArgs, csvVars, aiVars, uiVars>>

\* resolver calls made while datasets load
ResolverCalls ==
    {[op |-> "getLayerStyle", layerType |-> "topLocations", feature |-> Undefined],
     [op |-> "getLayerStyle", layerType |-> "not_a_layer", feature |-> Undefined],
     [op |-> "getFeatureStyle", layerType |-> "waterBodies", feature |-> Scored(85)]}

\* a component calls the resolver; the call returns in the next step
CallResolver(args) ==
    /\ styleResult # NotReturned
    /\ styleArgs' = args
    /\ styleResult' = NotReturned
    /\ UNCHANGED <<cache, netCount, calls, styleLog, csvVars, aiVars, uiVars>>

-----------------------------------------------------------------------------
(* Calls *)

Call(op, arg, gets) ==
    [op |-> op, arg |-> arg, gets |-> gets, status |-> "pending", result |-> Undefined]

\* runs the continuation of a call once the promises it awaits have settled
Advance(call) ==
    IF call.status # "pending" \/ PromiseAll(call.gets) = "pending" THEN call
    ELSE IF call.op = "loadStatistics"
    THEN LET r == loadStatisticsResume(call.gets)
         IN  [call EXCEPT !.status = IF r.state = "fulfilled" THEN "resolved" ELSE "rejected",
                          !.result = r.value]
    ELSE IF PromiseAll(call.gets) = "rejected"
    THEN [call EXCEPT !.status = "rejected"]
    ELSE IF call.op = "loadMapLayers"
    THEN [call EXCEPT !.status = "resolved", !.result = loadMapLayersReturn(call.gets)]
    ELSE [call EXCEPT !.status = "resolved", !.result = call.gets[1].value]

\* fetches the calls started in one step issue for a file
Issued(newCalls, file) ==
    Cardinality({ij \in (1..Len(newCalls)) \X (1..4) :
                    /\ ij[2] <= Len(newCalls[ij[1]].gets)
                    /\ newCalls[ij[1]].gets[ij[2]].file = file
                    /\ newCalls[ij[1]].gets[ij[2]].state = "fetching"})

RECURSIVE GetsOf(_)
GetsOf(cs) == IF cs = << >> THEN 0 ELSE Len(Head(cs).gets) + GetsOf(Tail(cs))

\* the data MainLayout keeps once both loaders have answered
RealData(mapLayers, statistics) ==
    [t |-> "object", mapLayers |-> mapLayers, statistics |-> statistics]

\* faulty variant: the finally block is missing, a failure leaves loading set
loadDataResumeNoFinally(layout, awaited, cs) ==
    IF awaited = << >> \/ ~layout.loading THEN layout
    ELSE IF \E k \in 1..Len(awaited) : cs[awaited[k]].status = "rejected"
    THEN layout
    ELSE IF \A k \in 1..Len(awaited) : cs[awaited[k]].status = "resolved"
    THEN [layout EXCEPT !.realData = RealData(cs[awaited[1]].result, cs[awaited[2]].result)]
    ELSE layout

\* MainLayout.jsx lines 39-56: the continuation of loadData after
\* await Promise.all([loadMapLayers(), loadStatistics()]): setRealData in the
\* try block, nothing but a log in the catch block, setLoading(false) in finally
loadDataResume(layout, awaited, cs) ==
    IF awaited = << >> \/ ~layout.loading THEN layout
    ELSE IF \E k \in 1..Len(awaited) : cs[awaited[k]].status = "rejected"
    THEN [layout EXCEPT !.loading = FALSE]
    ELSE IF \A k \in 1..Len(awaited) : cs[awaited[k]].status = "resolved"
    THEN [layout EXCEPT !.realData = RealData(cs[awaited[1]].result, cs[awaited[2]].result),
                        !.loading = FALSE]
    ELSE layout

\* the service's part of the synchronous prefix of one or more calls started
\* in the same task
BeginCalls(newCalls) ==
    /\ Len(calls) + Len(newCalls) <= MaxCalls
    /\ GetsOf(calls) + GetsOf(newCalls) <= MaxGets
    /\ calls' = calls \o [i \in 1..Len(newCalls) |-> Advance(newCalls[i])]
    /\ netCount' = [f \in Files |-> netCount[f] + Issued(newCalls, f)]
    /\ UNCHANGED <<cache, styleVars, csvVars, aiVars>>

\* calls started by a caller that keeps no component state
Begin(newCalls) ==
    /\ BeginCalls(newCalls)
    /\ UNCHANGED uiVars

loadMapLayersCall ==
    Call("loadMapLayers", "",
         [i \in 1..Len(EssentialFiles) |-> GetStart(EssentialFiles[i], "geojson")])

\* faulty variant: the statistics also load the largest dataset to count it
loadStatisticsCallAll ==
    Call("loadStatistics", "",
         <<GetStart("top_100.geojson", "geojson"),
           GetStart("top_100_fresh.geojson", "geojson"),
           GetStart("all_locations.geojson", "geojson")>>)

loadStatisticsCall ==
    Call("loadStatistics", "",
         <<GetStart("top_100.geojson", "geojson"),
           GetStart("top_100_fresh.geojson", "geojson")>>)

\* faulty variant: the heavy loader fetches the file itself and skips the cache
loadLargeDatasetCallUncached(datasetName) ==
    LET entry == PropertyGet(datasets, datasetName)
    IN  IF Truthy(entry)
        THEN Call("loadLargeDataset", datasetName,
                  <<Get(entry.s, "geojson", "fetching", TRUE, FALSE, Undefined)>>)
        ELSE [Call("loadLargeDataset", datasetName, << >>)
                 EXCEPT !.status = "resolved", !.result = Null]

\* lines 199-216: datasets[datasetName] is a property read of an object literal
loadLargeDatasetCall(datasetName) ==
    LET entry == PropertyGet(datasets, datasetName)
    IN  IF Truthy(entry)
        THEN Call("loadLargeDataset", datasetName, <<GetStart(entry.s, "geojson")>>)
        ELSE [Call("loadLargeDataset", datasetName, << >>)
                 EXCEPT !.status = "resolved", !.result = Null]

\* arguments the session passes
GeoJSONArgs == {"top_100.geojson"}
CSVArgs == {CsvFile}
DatasetNames == {"trees", "not_a_real_dataset", "constructor"}

loadGeoJSON(filename) ==
    Begin(<<Call("loadGeoJSON", filename, <<GetStart(filename, "geojson")>>)>>)

loadCSV(filename) ==
    Begin(<<Call("loadCSV", filename, <<GetStart(filename, "csv")>>)>>)

loadMapLayers == Begin(<<loadMapLayersCall>>)

loadLargeDataset(datasetName) == Begin(<<loadLargeDatasetCall(datasetName)>>)

loadStatistics == Begin(<<loadStatisticsCall>>)

\* MainLayout's mount effect: Promise.all([loadMapLayers(), loadStatistics()])
\* starts both calls before either awaits anything
\* (lines 37-57, run once); the calls it awaits are remembered by position
loadData ==
    /\ loadDataCalls = << >>
    /\ BeginCalls(<<loadMapLayersCall, loadStatisticsCall>>)
    /\ loadDataCalls' = <<Len(calls) + 1, Len(calls) + 2>>
    /\ mainLayout' = loadDataResume(mainLayout, loadDataCalls', calls')
    /\ uiEvent' = NoEvent
    /\ UNCHANGED <<chatAssistant, postalCodeSearch, dataExplorer>>

\* faulty variant: a failed request also drops the entry of its file
FetchSettleEvicting(i, j, outcome) ==
    /\ i \in 1..Len(calls)
    /\ j \in 1..Len(calls[i].gets)
    /\ calls[i].gets[j].state = "fetching"
    /\ LET g == calls[i].gets[j]
           r == IF g.format = "csv" THEN loadCSVResume(outcome)
                ELSE loadGeoJSONResume(outcome)
           done == Get(g.file, g.format, r.state, TRUE, outcome.kind # "ok", r.value)
       IN  /\ cache' = IF r.stored THEN [cache EXCEPT ![g.file] = r.value]
                       ELSE [cache EXCEPT ![g.file] = NoEntry]
           /\ calls' = [calls EXCEPT ![i] = Advance([@ EXCEPT !.gets[j] = done])]
    /\ mainLayout' = loadDataResume(mainLayout, loadDataCalls, calls')
    /\ UNCHANGED <<netCount, styleVars, csvVars, aiVars, loadDataCalls, chatAssistant,
                   postalCodeSearch, dataExplorer, uiEvent>>

\* one request of call i settles: the get resumes, then the call if it was the
\* last it waited for, then loadData if it awaited that call
FetchSettle(i, j, outcome) ==
    /\ i \in 1..Len(calls)
    /\ j \in 1..Len(calls[i].gets)
    /\ calls[i].gets[j].state = "fetching"
    /\ LET g == calls[i].gets[j]
           r == IF g.format = "csv" THEN loadCSVResume(outcome)
                ELSE loadGeoJSONResume(outcome)
           done == Get(g.file, g.format, r.state, TRUE, outcome.kind # "ok", r.value)
       IN  /\ cache' = IF r.stored THEN [cache EXCEPT ![g.file] = r.value] ELSE cache
           /\ calls' = [calls EXCEPT ![i] = Advance([@ EXCEPT !.gets[j] = done])]
    /\ mainLayout' = loadDataResume(mainLayout, loadDataCalls, calls')
    /\ UNCHANGED <<netCount, styleVars, csvVars, aiVars, loadDataCalls, chatAssistant,
                   postalCodeSearch, dataExplorer, uiEvent>>

\* the requests in flight: <<call, get>>
Fetching ==
    {ij \in (1..Len(calls)) \X (1..4) :
        /\ ij[2] <= Len(calls[ij[1]].gets)
        /\ calls[ij[1]].gets[ij[2]].state = "fetching"}

Init ==
    /\ cache = [f \in Files |-> NoEntry]
    /\ netCount = [f \in Files |-> 0]
    /\ calls = << >>
    /\ styleArgs = NoStyleCall
    /\ styleResult = Undefined
    /\ styleLog = {}
    /\ NoParse
    /\ NoQuery
    /\ PageLoaded

Next ==
    \/ \E f \in GeoJSONArgs : loadGeoJSON(f)
    \/ \E f \in CSVArgs : loadCSV(f)
    \/ loadMapLayers
    \/ \E n \in DatasetNames : loadLargeDataset(n)
    \/ loadStatistics
    \/ loadData
    \/ \E ij \in Fetching :
          \E o \in Outcomes(calls[ij[1]].gets[ij[2]].file) : FetchSettle(ij[1], ij[2], o)

Spec == Init /\ [][Next]_vars

-----------------------------------------------------------------------------
(* The statistics model: loadStatistics from every cache state the two files *)
(* it reads can be in, against every outcome of its requests                 *)

StatisticsFiles == {"top_100.geojson", "top_100_fresh.geojson"}

InitStatistics ==
    /\ cache \in {[f \in Files |->
                      IF f = "top_100.geojson" THEN top
                      ELSE IF f = "top_100_fresh.geojson" THEN fresh
                      ELSE NoEntry] :
                    top \in StatisticsBodies("top_100.geojson") \cup {NoEntry},
                    fresh \in StatisticsBodies("top_100_fresh.geojson") \cup {NoEntry}}
    /\ netCount = [f \in Files |-> IF cache[f] # NoEntry THEN 1 ELSE 0]
    /\ calls = << >>
    /\ styleArgs = NoStyleCall
    /\ styleResult = Undefined
    /\ styleLog = {}
    /\ NoParse
    /\ NoQuery
    /\ PageLoaded

NextStatistics ==
    \/ loadStatistics
    \/ \E ij \in Fetching :
          \E o \in StatisticsOutcomes(calls[ij[1]].gets[ij[2]].file) :
              FetchSettle(ij[1], ij[2], o)

SpecStatistics == InitStatistics /\ [][NextStatistics]_vars

-----------------------------------------------------------------------------
(* The startup model: MainLayout mounts and loads its data *)

NextStartup ==
    \/ loadData
    \/ \E ij \in Fetching :
          \E o \in Outcomes(calls[ij[1]].gets[ij[2]].file) : FetchSettle(ij[1], ij[2], o)

SpecStartup == Init /\ [][NextStartup]_vars

\* a request the browser has issued ends, with a response or with an error
StartupSettle ==
    \E ij \in Fetching :
        \E o \in Outcomes(calls[ij[1]].gets[ij[2]].file) : FetchSettle(ij[1], ij[2], o)

\* the startup model under the browser's scheduling: no request stays in
\* flight for ever
SpecStartupFair == SpecStartup /\ WF_vars(StartupSettle)

-----------------------------------------------------------------------------
(* The heavy-dataset model: loadLargeDataset called with every registry name *)

NextHeavy ==
    \/ \E n \in DOMAIN datasets : loadLargeDataset(n)
    \/ \E ij \in Fetching :
          \E o \in Outcomes(calls[ij[1]].gets[ij[2]].file) : FetchSettle(ij[1], ij[2], o)

SpecHeavy == Init /\ [][NextHeavy]_vars

-----------------------------------------------------------------------------
(* The resolver model: resolver calls repeated while a dataset loads *)

NextResolver ==
    \/ \E args \in ResolverCalls : CallResolver(args)
    \/ GetLayerStyle
    \/ GetFeatureStyle
    \/ \E f \in GeoJSONArgs : loadGeoJSON(f)
    \/ \E ij \in Fetching :
          \E o \in Outcomes(calls[ij[1]].gets[ij[2]].file) : FetchSettle(ij[1], ij[2], o)

SpecResolver == Init /\ [][NextResolver]_vars

-----------------------------------------------------------------------------
(* The style model: the two pure resolvers applied to every argument *)

InitStyle ==
    /\ cache = [f \in Files |-> NoEntry]
    /\ netCount = [f \in Files |-> 0]
    /\ calls = << >>
    /\ styleArgs \in StyleCalls
    /\ styleResult = NotReturned
    /\ styleLog = {}
    /\ NoParse
    /\ NoQuery
    /\ PageLoaded

NextStyle ==
    \/ GetLayerStyle
    \/ GetFeatureStyle

SpecStyle == InitStyle /\ [][NextStyle]_vars

-----------------------------------------------------------------------------
(* Properties of the dataset cache *)

\* the gets of the session: <<call, get>>
AllGets ==
    {ij \in (1..Len(calls)) \X (1..4) : ij[2] <= Len(calls[ij[1]].gets)}

GetAt(ij) == calls[ij[1]].gets[ij[2]]

GetsOfFile(f) == {ij \in AllGets : GetAt(ij).file = f}

\* a get of file f has completed with a successful fetch
SucceededFetch(f) ==
    \E ij \in GetsOfFile(f) :
        GetAt(ij).fetched /\ ~GetAt(ij).failed /\ GetAt(ij).state = "fulfilled"

\* C1: once a get of a file has completed with a successful fetch, no later
\* step issues a request for that file, and every get of it started later
\* returns the cached payload at once
C1_SingleFetchMemoization ==
    [][\A ij \in AllGets :
          (GetAt(ij).fetched /\ ~GetAt(ij).failed /\ GetAt(ij).state = "fulfilled") =>
              LET f == GetAt(ij).file
              IN  /\ netCount'[f] = netCount[f]
                  /\ \A k \in (Len(calls) + 1)..Len(calls') :
                        \A j \in 1..Len(calls'[k].gets) :
                            calls'[k].gets[j].file = f =>
                                /\ ~calls'[k].gets[j].fetched
                                /\ calls'[k].gets[j].state = "fulfilled"
                                /\ calls'[k].gets[j].value = cache[f]]_vars

\* two loadGeoJSON calls of one file: the first fetched it, the second was
\* answered from the cache, one request in all
C1_Witness ==
    /\ Len(calls) = 2
    /\ calls[1].op = "loadGeoJSON" /\ calls[2].op = "loadGeoJSON"
    /\ calls[1].arg = calls[2].arg
    /\ calls[1].gets[1].fetched /\ ~calls[1].gets[1].failed
    /\ calls[1].status = "resolved" /\ calls[2].status = "resolved"
    /\ ~calls[2].gets[1].fetched
    /\ calls[2].result = calls[1].result
    /\ netCount[calls[1].arg] = 1

\* C3: while no fetch of a file has succeeded the cache has no entry for it and
\* every get of it issued a request of its own; an entry of the cache is always
\* the payload of a fetch that succeeded
C3_FailuresNotCached ==
    \A f \in Files :
        /\ ~SucceededFetch(f) =>
              /\ cache[f] = NoEntry
              /\ \A ij \in GetsOfFile(f) : GetAt(ij).fetched
              /\ netCount[f] = Cardinality(GetsOfFile(f))
        /\ cache[f] # NoEntry =>
              \E ij \in GetsOfFile(f) :
                  /\ GetAt(ij).fetched /\ ~GetAt(ij).failed
                  /\ GetAt(ij).value = cache[f]

\* two loadGeoJSON calls of one file: the first request failed, the second was
\* issued all the same and its payload was cached
C3_Witness ==
    /\ Len(calls) = 2
    /\ calls[1].op = "loadGeoJSON" /\ calls[2].op = "loadGeoJSON"
    /\ calls[1].arg = calls[2].arg
    /\ calls[1].status = "resolved" /\ calls[1].gets[1].failed
    /\ calls[2].status = "resolved" /\ calls[2].gets[1].fetched
    /\ ~calls[2].gets[1].failed
    /\ netCount[calls[1].arg] = 2
    /\ cache[calls[1].arg] = calls[2].result

\* C4: a loadGeoJSON or loadCSV call is pending exactly while its request is in
\* flight and then resolved, never rejected, with a value; after a failed
\* request the value is the empty feature collection, or the empty record list
C4_GetIsTotal ==
    \A i \in 1..Len(calls) :
        calls[i].op \in {"loadGeoJSON", "loadCSV"} =>
            LET g == calls[i].gets[1]
            IN  \/ g.state = "fetching" /\ calls[i].status = "pending"
                \/ /\ g.state = "fulfilled"
                   /\ calls[i].status = "resolved"
                   /\ calls[i].result = g.value
                   /\ ~Nullish(calls[i].result)
                   /\ g.failed =>
                         calls[i].result =
                             IF calls[i].op = "loadGeoJSON"
                             THEN [t |-> "object", type |-> "FeatureCollection", features |-> << >>]
                             ELSE [t |-> "array", items |-> << >>]

\* a loadGeoJSON call and a loadCSV call whose requests both failed
C4_Witness ==
    \E i, k \in 1..Len(calls) :
        /\ calls[i].op = "loadGeoJSON" /\ calls[i].gets[1].failed
        /\ calls[i].status = "resolved"
        /\ calls[k].op = "loadCSV" /\ calls[k].gets[1].failed
        /\ calls[k].status = "resolved"

\* C5: a loadMapLayers call never rejects, resolves exactly when its four gets
\* have, and then holds under each of the four keys the empty feature
\* collection if that file's request failed and the file's payload otherwise
C5_MapLayersTotal ==
    \A i \in 1..Len(calls) :
        calls[i].op = "loadMapLayers" =>
            LET c == calls[i]
                keys == <<"topLocations", "topLocationsFresh", "heatPriorityZones", "waterBodies">>
            IN  /\ c.status # "rejected"
                /\ Len(c.gets) = 4
                /\ c.status = "resolved" <=> \A j \in 1..4 : c.gets[j].state = "fulfilled"
                /\ c.status = "resolved" =>
                      \A j \in 1..4 :
                          /\ c.gets[j].file = EssentialFiles[j]
                          /\ c.gets[j].failed =>
                                c.result[keys[j]] = EmptyFeatureCollection
                          /\ ~c.gets[j].failed =>
                                c.result[keys[j]] \in Bodies(EssentialFiles[j])

\* a resolved loadMapLayers call with two failed and two successful requests
C5_Witness ==
    \E i \in 1..Len(calls) :
        /\ calls[i].op = "loadMapLayers" /\ calls[i].status = "resolved"
        /\ calls[i].gets[1].failed /\ calls[i].gets[4].failed
        /\ calls[i].gets[2].fetched /\ ~calls[i].gets[2].failed
        /\ calls[i].gets[3].fetched /\ ~calls[i].gets[3].failed
        /\ calls[i].result.topLocations = EmptyFeatureCollection
        /\ calls[i].result.topLocationsFresh = Top100Fresh
        /\ calls[i].result.heatPriorityZones = HeatZones

\* C2: while every request succeeds, no file is requested more than once
C2_AtMostOneFetch ==
    (\A ij \in AllGets : ~GetAt(ij).failed) => \A f \in Files : netCount[f] <= 1

\* C6: a loadLargeDataset call whose name is none of the six of the registry
\* has resolved with null without starting a get
C6_RegistryValidation ==
    \A i \in 1..Len(calls) :
        (calls[i].op = "loadLargeDataset" /\ calls[i].arg \notin DOMAIN datasets) =>
            /\ calls[i].status = "resolved"
            /\ calls[i].result = Null
            /\ calls[i].gets = << >>

\* C7: a loadStatistics call whose two requests both failed resolves with the
\* literal fallback statistics
C7_TotalFallback ==
    \A i \in 1..Len(calls) :
        (/\ calls[i].op = "loadStatistics"
         /\ calls[i].status = "resolved"
         /\ \A j \in 1..Len(calls[i].gets) : calls[i].gets[j].failed) =>
            /\ calls[i].result.stats.totalLocations = Num(114982)
            /\ calls[i].result.stats.freshLocations = Num(13882)
            /\ calls[i].result.stats.topLocations = Num(100)
            /\ calls[i].result.stats.topFreshLocations = Num(100)
            /\ calls[i].result.stats.topScore = Num(83)
            /\ calls[i].result.stats.averageScore = Num(65)
            /\ calls[i].result.stats.perfectLocations = Num(25)

StatsFields ==
    {"totalLocations", "freshLocations", "topLocations", "topFreshLocations",
     "plantableArea", "freshPlantableArea", "topScore", "averageScore",
     "co2Reduction", "perfectLocations"}

\* C8: a loadStatistics call never rejects, resolves as soon as none of its
\* requests is in flight, and its stats record then has the ten fields, none
\* undefined or null, with totalLocations 114982 and freshLocations 13882
C8_StatisticsFullyPopulated ==
    \A i \in 1..Len(calls) :
        calls[i].op = "loadStatistics" =>
            LET c == calls[i]
            IN  /\ c.status # "rejected"
                /\ c.status = "resolved" <=>
                      \A j \in 1..Len(c.gets) : c.gets[j].state # "fetching"
                /\ c.status = "resolved" =>
                      /\ "stats" \in DOMAIN c.result
                      /\ DOMAIN c.result.stats = StatsFields
                      /\ \A k \in StatsFields : ~Nullish(c.result.stats[k])
                      /\ c.result.stats.totalLocations = Num(114982)
                      /\ c.result.stats.freshLocations = Num(13882)

\* two resolved loadStatistics calls: one computed from the payloads, one
\* answered by the fallback after the computation threw
C8_Witness ==
    \E i, k \in 1..Len(calls) :
        /\ calls[i].op = "loadStatistics" /\ calls[i].status = "resolved"
        /\ calls[i].result.rawData # Null
        /\ calls[i].result.stats.topLocations = Num(3)
        /\ calls[k].op = "loadStatistics" /\ calls[k].status = "resolved"
        /\ calls[k].result.rawData = Null
        /\ calls[k].gets[1].value = Top100Malformed

\* C9: loadStatistics calls get top_100.geojson and top_100_fresh.geojson and
\* nothing else: in a session of loadStatistics calls no other file is ever
\* requested or cached
C9_StatisticsLoadsTwoFiles ==
    /\ \A f \in Files \ StatisticsFiles : netCount[f] = 0 /\ cache[f] = NoEntry
    /\ \A i \in 1..Len(calls) :
          calls[i].op = "loadStatistics" =>
              [j \in 1..Len(calls[i].gets) |-> calls[i].gets[j].file]
                  = <<"top_100.geojson", "top_100_fresh.geojson">>

\* a resolved loadStatistics call that fetched both of its files
C9_Witness ==
    \E i \in 1..Len(calls) :
        /\ calls[i].op = "loadStatistics" /\ calls[i].status = "resolved"
        /\ \A j \in 1..2 : calls[i].gets[j].fetched /\ ~calls[i].gets[j].failed
        /\ cache["top_100.geojson"] # NoEntry
        /\ cache["top_100_fresh.geojson"] # NoEntry

\* C10: getLayerStyle returns the table's descriptor for each of its ten keys
\* and the allLocations descriptor for every other string
C10_LayerStyleDefault ==
    (styleArgs.op = "getLayerStyle" /\ styleResult # NotReturned) =>
        IF styleArgs.layerType \in DOMAIN styles
        THEN styleResult = styles[styleArgs.layerType]
        ELSE styleResult = [color |-> "#FFD23F", fillColor |-> "#FFD23F",
                            fillOpacity |-> 6, weight |-> 2, radius |-> 4]

-----------------------------------------------------------------------------
(* AILocationService *)

\* getTreeLocations calls started in one session
MaxQueries == 2

\* largest reading of Date.now() in a session
MaxNow == 2

Array(items) == [t |-> "array", items |-> items]

\* a location summary, given by its text and by what the score pattern
\* /(?:Final score:|score)\s*(\d+)/i captures in it (Undefined: no match)
Summary(s, scoreMatch) == [t |-> "string", s |-> s, scoreMatch |-> scoreMatch]

LocationEntry(summary, latitude, longitude) ==
    [t |-> "object", summary |-> summary, latitude |-> latitude, longitude |-> longitude]

ApiData(summary_of_results, locations, tip) ==
    [t |-> "object", summary_of_results |-> summary_of_results,
     locations |-> locations, tip |-> tip]

\* lines 36-40: the result of the catch block.  A message is kept as the pair
\* of its text and the tip appended to it (line 62: message + tip)
AiUnavailable ==
    [success |-> FALSE,
     message |-> <<"AI service unavailable. Please try again.", "">>,
     locations |-> Array(<< >>)]

\* lines 72-102: one element of the mapped locations; reading a property of
\* null or undefined throws, and so does summary.match when summary is truthy
\* but not a string
LocationThrows(location) ==
    \/ Nullish(location)
    \/ (Truthy(location.summary) /\ location.summary.t # "string")

\* info is the first line of the summary; the details object (constant scores,
\* species, cooling) is left out
MapLocation(location, index, now) ==
    LET summary == IF Truthy(location.summary) THEN location.summary
                   ELSE Summary("", Undefined)
    IN  [id |-> <<"ai", now, index>>,
         lat |-> location.latitude,
         lng |-> location.longitude,
         score |-> IF summary.scoreMatch # Undefined THEN summary.scoreMatch ELSE Num(90),
         info |-> IF summary.s # "" THEN summary.s ELSE "AI recommended location",
         fullSummary |-> summary.s]

\* lines 46-106
processAPIResponse(apiData, now) ==
    IF Nullish(apiData) THEN Thrown
    ELSE LET Prop(k) == IF k \in DOMAIN apiData THEN apiData[k] ELSE Undefined
             message == IF Truthy(Prop("summary_of_results"))
                        THEN Prop("summary_of_results").s
                        ELSE "AI found locations for you!"
             tip == IF Truthy(Prop("tip")) THEN Prop("tip").s ELSE ""
             locations == IF Truthy(Prop("locations")) THEN Prop("locations")
                          ELSE Array(<< >>)
         IN  IF locations.t # "array" THEN Thrown
             ELSE IF \E i \in 1..Len(locations.items) : LocationThrows(locations.items[i])
             THEN Thrown
             ELSE Returned([success |-> TRUE,
                            message |-> <<message, tip>>,
                            locations |->
                                Array([i \in 1..Len(locations.items) |->
                                          MapLocation(locations.items[i], i - 1, now)])])

\* lines 14-34: the try block once the POST has settled
getTreeLocationsTry(outcome, now) ==
    IF outcome.kind = "network_error" THEN Thrown
    ELSE IF outcome.kind = "http_error" THEN Thrown
    ELSE IF outcome.kind = "parse_error" THEN Thrown
    ELSE processAPIResponse(outcome.body, now)

\* lines 35-42
getTreeLocationsCatch == AiUnavailable

\* lines 13-43 after the await: a throw anywhere in the try block is caught
getTreeLocationsResume(outcome, now) ==
    LET r == getTreeLocationsTry(outcome, now)
    IN  IF r.threw THEN getTreeLocationsCatch ELSE r.value

\* bodies a 2xx response of the AI endpoint can carry once parsed as JSON
AiWellFormedBodies ==
    {ApiData(Str("Found 2 locations"),
             Array(<<LocationEntry(Summary("Final score: 87", Num(87)), Num(49), Num(9)),
                     LocationEntry(Summary("Shady corner", Undefined), Num(49), Num(9))>>),
             Str("Water weekly")),
     ApiData(Str("Nothing found"), Array(<< >>), Undefined)}

AiMalformedBodies ==
    {Null,
     [t |-> "object"],
     Str("Internal error"),
     ApiData(Str("Found 1 location"), Str("none"), Undefined),
     ApiData(Str("Found 1 location"), Array(<<Null>>), Undefined),
     ApiData(Str("Found 1 location"),
             Array(<<LocationEntry(Undefined, Undefined, Undefined)>>), Undefined)}

AiOutcomes == OutcomesOf(AiWellFormedBodies \cup AiMalformedBodies)

Queries == {"", "2 best locations in Heilbronn for tree planting?"}

NoOutcome == [kind |-> "pending", body |-> Undefined]

\* lines 13-24: the call runs up to the await of the POST
getTreeLocations(userQuery) ==
    /\ Len(aiCalls) < MaxQueries
    /\ aiCalls' = Append(aiCalls, [query |-> userQuery, state |-> "posting",
                                   outcome |-> NoOutcome, result |-> Undefined])
    /\ aiPosts' = aiPosts + 1
    /\ UNCHANGED <<cache, netCount, calls, styleVars, csvVars, uiVars>>

-----------------------------------------------------------------------------
(* MainLayout and ChatAssistant *)

\* DataExplorer.jsx lines 34-45
DataExplorerInitial ==
    [layerVisibility |->
        [k \in {"allLocations", "buildingsFresh", "roadsFresh", "trees", "fire",
                "waterBodies", "heatPriorityZones", "scoredLocationsFresh",
                "topLocations", "topLocationsFresh"} |->
            k \notin {"fire", "scoredLocationsFresh"}]]

\* the instance number a ChatAssistant mounted now would get: instances that
\* issued a request keep their number for the continuation of that request
NextInstance ==
    LET used == {aiCalls[i].chat : i \in {k \in 1..Len(aiCalls) : "chat" \in DOMAIN aiCalls[k]}}
    IN  IF used = {} THEN 1 ELSE 1 + CHOOSE n \in used : \A u \in used : u <= n

\* MainLayout.jsx lines 326-328: ChatAssistant is rendered only in the chat
\* view; leaving the view unmounts it and its state hooks are dropped
RenderChat(view) ==
    IF view # "chat" THEN NotMounted
    ELSE IF chatAssistant = NotMounted THEN ChatAssistantInitial(NextInstance)
    ELSE chatAssistant

\* MainLayout.jsx lines 302-304: DataExplorer is rendered only in the data view
RenderDataExplorer(view) ==
    IF view # "data" THEN NotMounted
    ELSE IF dataExplorer = NotMounted THEN DataExplorerInitial
    ELSE dataExplorer

\* MainLayout.jsx line 212: a menu item is clicked
setActiveView(view) ==
    /\ mainLayout' = [mainLayout EXCEPT !.activeView = view]
    /\ chatAssistant' = RenderChat(view)
    /\ dataExplorer' = RenderDataExplorer(view)
    /\ uiEvent' = NoEvent
    /\ UNCHANGED <<cache, netCount, calls, styleVars, csvVars, aiVars, loadDataCalls,
                   postalCodeSearch>>

\* first.lat ?? first.latitude ?? null
Coordinate(first, short, long) ==
    IF short \in DOMAIN first /\ ~Nullish(first[short]) THEN first[short]
    ELSE IF long \in DOMAIN first /\ ~Nullish(first[long]) THEN first[long]
    ELSE Null

\* { source: "ai", ...first }: a source property of first would win
TaggedAi(first) ==
    [k \in DOMAIN first \cup {"source"} |->
        IF k \in DOMAIN first THEN first[k] ELSE "ai"]

\* faulty variant: the map is centred whatever the coordinates are
ShowLocationsFromAIAlwaysCentred(layout, locations) ==
    IF ~Truthy(locations) \/ Len(locations.items) = 0 THEN layout
    ELSE LET first == locations.items[1]
             lat == Coordinate(first, "lat", "latitude")
             lng == Coordinate(first, "lng", "longitude")
         IN  [layout EXCEPT !.mapCenter = LatLng(lat, lng),
                            !.mapZoom = 16,
                            !.aiLocations = locations,
                            !.selectedLocation = TaggedAi(first),
                            !.activeView = "map"]

\* MainLayout.jsx lines 67-83: the state hooks after handleShowLocationsFromAI
ShowLocationsFromAI(layout, locations) ==
    IF ~Truthy(locations) \/ Len(locations.items) = 0 THEN layout
    ELSE LET first == locations.items[1]
             lat == Coordinate(first, "lat", "latitude")
             lng == Coordinate(first, "lng", "longitude")
             centred == lat # Null /\ lng # Null
         IN  [layout EXCEPT !.mapCenter = IF centred THEN LatLng(lat, lng) ELSE @,
                            !.mapZoom = IF centred THEN 16 ELSE @,
                            !.aiLocations = locations,
                            !.selectedLocation = TaggedAi(first),
                            !.activeView = "map"]

\* MainLayout.jsx lines 67-83, as the onShowLocations prop of ChatAssistant
handleShowLocationsFromAI(locations) ==
    /\ mainLayout' = ShowLocationsFromAI(mainLayout, locations)
    /\ chatAssistant' = RenderChat(mainLayout'.activeView)
    /\ dataExplorer' = RenderDataExplorer(mainLayout'.activeView)
    /\ uiEvent' = Event("handleShowLocationsFromAI", locations)
    /\ UNCHANGED <<cache, netCount, calls, styleVars, csvVars, aiVars, loadDataCalls,
                   postalCodeSearch>>

\* ChatAssistant.jsx lines 67-71 and 123-130: the "Show on map" button of
\* message k, rendered when msg.hasLocations && msg.locations
handleShowLocations(k) ==
    /\ chatAssistant # NotMounted
    /\ k \in 1..Len(chatAssistant.messages)
    /\ "hasLocations" \in DOMAIN chatAssistant.messages[k]
    /\ chatAssistant.messages[k].hasLocations
    /\ Truthy(chatAssistant.messages[k].locations)
    /\ IF Len(chatAssistant.messages[k].locations.items) > 0
       THEN handleShowLocationsFromAI(chatAssistant.messages[k].locations)
       ELSE UNCHANGED vars

\* what the user can have in the input box
ChatInputs == {<< >>, <<" ">>, <<" ", "q", " ">>}

\* ChatAssistant.jsx line 152: onChange of the input box
setMessage(text) ==
    /\ chatAssistant # NotMounted
    /\ chatAssistant' = [chatAssistant EXCEPT !.message = text]
    /\ uiEvent' = NoEvent
    /\ UNCHANGED <<cache, netCount, calls, styleVars, csvVars, aiVars, mainLayout,
                   loadDataCalls, postalCodeSearch, dataExplorer>>

\* faulty variant: the isLoading test is missing
SendAcceptedWhileLoading == Trim(chatAssistant.message) # << >>

\* ChatAssistant.jsx line 21: if (!message.trim() || isLoading) return
SendAccepted == Trim(chatAssistant.message) # << >> /\ ~chatAssistant.isLoading

\* ChatAssistant.jsx lines 20-35: handleSendMessage up to the await, with the
\* part of getTreeLocations that runs before its own await (lines 13-24).  The
\* call remembers the instance that issued it and the id of the user message.
handleSendMessage ==
    /\ chatAssistant # NotMounted
    /\ uiEvent' = Event("handleSendMessage", chatAssistant.message)
    /\ IF SendAccepted
       THEN LET userQuery == Trim(chatAssistant.message)
                userMessage == [id |-> Len(chatAssistant.messages) + 1,
                                type |-> "user", content |-> userQuery]
            IN  /\ Len(aiCalls) < MaxQueries
                /\ chatAssistant' =
                      [chatAssistant EXCEPT !.messages = Append(@, userMessage),
                                            !.message = << >>,
                                            !.isLoading = TRUE]
                /\ aiCalls' = Append(aiCalls,
                                     [query |-> userQuery, state |-> "posting",
                                      outcome |-> NoOutcome, result |-> Undefined,
                                      chat |-> chatAssistant.instance,
                                      userMessageId |-> userMessage.id])
                /\ aiPosts' = aiPosts + 1
       ELSE UNCHANGED <<chatAssistant, aiVars>>
    /\ UNCHANGED <<cache, netCount, calls, styleVars, csvVars, mainLayout, loadDataCalls,
                   postalCodeSearch, dataExplorer>>

\* faulty variant: the reply is written to whichever instance is mounted
SameInstanceAny(chat, call) == chat # NotMounted

\* the component that awaits the call is still the mounted one: a state
\* setter of an unmounted component changes nothing
SameInstance(chat, call) == chat # NotMounted /\ chat.instance = call.chat

\* ChatAssistant.jsx lines 37-64: handleSendMessage after the await.
\* getTreeLocations never rejects, so the catch block of lines 49-61 is not
\* entered; finally clears isLoading.
handleSendMessageResume(chat, call, aiResult) ==
    IF "chat" \notin DOMAIN call \/ ~SameInstance(chat, call) THEN chat
    ELSE LET locations == IF Truthy(aiResult.locations) THEN aiResult.locations
                          ELSE Array(<< >>)
             assistantMessage ==
                 [id |-> call.userMessageId + 1,
                  type |-> "assistant",
                  content |-> IF aiResult.message # <<"", "">> THEN aiResult.message
                              ELSE <<"I received your question from the AI.", "">>,
                  locations |-> locations,
                  hasLocations |-> aiResult.locations.t = "array"
                                   /\ Len(aiResult.locations.items) > 0]
         IN  [chat EXCEPT !.messages = Append(@, assistantMessage),
                          !.isLoading = FALSE]

\* the POST of call i settles and the call runs to its return, then the
\* handler that awaited it
PostSettle(i, outcome, now) ==
    /\ i \in 1..Len(aiCalls)
    /\ aiCalls[i].state = "posting"
    /\ aiCalls' = [aiCalls EXCEPT ![i] =
                      [@ EXCEPT !.state = "resolved", !.outcome = outcome,
                                !.result = getTreeLocationsResume(outcome, now)]]
    /\ chatAssistant' = handleSendMessageResume(chatAssistant, aiCalls[i],
                                                getTreeLocationsResume(outcome, now))
    /\ UNCHANGED <<cache, netCount, calls, styleVars, csvVars, aiPosts, mainLayout,
                   loadDataCalls, postalCodeSearch, dataExplorer, uiEvent>>

InitAI ==
    /\ cache = [f \in Files |-> NoEntry]
    /\ netCount = [f \in Files |-> 0]
    /\ calls = << >>
    /\ styleArgs = NoStyleCall
    /\ styleResult = Undefined
    /\ styleLog = {}
    /\ NoParse
    /\ NoQuery
    /\ PageLoaded

NextAI ==
    \/ \E q \in Queries : getTreeLocations(q)
    \/ \E i \in 1..Len(aiCalls) : \E o \in AiOutcomes : \E now \in 1..MaxNow :
          PostSettle(i, o, now)

SpecAI == InitAI /\ [][NextAI]_vars

-----------------------------------------------------------------------------
(* PostalCodeSearch *)

\* String.prototype.includes
Includes(cs, part) ==
    \E i \in 0..(Len(cs) - Len(part)) : SubSeq(cs, i + 1, i + Len(part)) = part

\* String.prototype.toLowerCase, on the letters the names and queries use
ToLowerCase(cs) ==
    [i \in 1..Len(cs) |->
        IF cs[i] = "I" THEN "i" ELSE IF cs[i] = "N" THEN "n"
        ELSE IF cs[i] = "B" THEN "b" ELSE IF cs[i] = "S" THEN "s"
        ELSE IF cs[i] = "F" THEN "f" ELSE cs[i]]

\* obj.key on an object whose own properties are the fields of a record
Prop(obj, key) == IF key \in DOMAIN obj THEN obj[key] ELSE Undefined

\* PostalCodeSearch.jsx lines 57-103, in the order of Object.entries; bounds
\* and description are left out
postalCodeAreas ==
    <<[code |-> <<"7", "4", "0", "7", "2">>,
       name |-> <<"I", "n", "n", "e", "n", "s", "t", "a", "d", "t">>,
       center |-> LatLng(Num(491427), Num(92109))],
      [code |-> <<"7", "4", "0", "7", "4">>,
       name |-> <<"B", "o", "e", "c", "k", "i", "n", "g", "e", "n">>,
       center |-> LatLng(Num(491520), Num(92180))],
      [code |-> <<"7", "4", "0", "7", "6">>,
       name |-> <<"S", "o", "n", "t", "h", "e", "i", "m">>,
       center |-> LatLng(Num(491350), Num(91950))],
      [code |-> <<"7", "4", "0", "7", "8">>,
       name |-> <<"N", "e", "c", "k", "a", "r", "g", "a", "r", "t", "a", "c", "h">>,
       center |-> LatLng(Num(491600), Num(92300))],
      [code |-> <<"7", "4", "0", "8", "0">>,
       name |-> <<"F", "r", "a", "n", "k", "e", "n", "b", "a", "c", "h">>,
       center |-> LatLng(Num(491250), Num(91800))]>>

\* Array.prototype.slice(0, n)
Slice(items, n) == SubSeq(items, 1, IF Len(items) < n THEN Len(items) ELSE n)

\* lines 277-284 and 124-129: { type: "postal_code", code, ...area }
PostalResult(area) ==
    [type |-> "postal_code", code |-> area.code, name |-> area.name,
     center |-> area.center]

\* lines 117-129
PostalMatches(query) ==
    LET Keep(area) == \/ Includes(area.code, query)
                      \/ Includes(ToLowerCase(area.name), ToLowerCase(query))
        matches == SelectSeq(postalCodeAreas, Keep)
    IN  [i \in 1..Len(matches) |-> PostalResult(matches[i])]

\* lines 143-158: one mapped top location
TreeResult(location) ==
    [type |-> "tree_location",
     id |-> Prop(location, "rank"),
     score |-> Prop(location, "final_score"),
     coordinates |-> LatLng(Prop(location, "latitude"), Prop(location, "longitude")),
     postal_code |-> Prop(location, "postal_code"),
     area_name |-> Prop(location, "area_name")]

\* lines 132-159: realData?.statistics?.topLocations is read from the object
\* loadStatistics returned
LocationMatches(query, realData) ==
    IF Nullish(realData) \/ Nullish(Prop(realData, "statistics"))
       \/ ~Truthy(Prop(realData.statistics, "topLocations"))
    THEN << >>
    ELSE LET Matches(location, key) ==
                 /\ ~Nullish(Prop(location, key))
                 /\ Includes(IF key = "area_name"
                             THEN ToLowerCase(Prop(location, key).chars)
                             ELSE Prop(location, key).chars,
                             IF key = "area_name" THEN ToLowerCase(query) ELSE query)
             Keep(location) == Matches(location, "postal_code")
                               \/ Matches(location, "area_name")
             matches == Slice(SelectSeq(realData.statistics.topLocations.items, Keep), 10)
         IN  [i \in 1..Len(matches) |-> TreeResult(matches[i])]

\* lines 113-166: searchLocations has no await, it runs to its end at once
searchLocations(query, realData) == PostalMatches(query) \o LocationMatches(query, realData)

\* what the user can have in the search box
SearchQueries ==
    {<< >>, <<"7", "4">>, <<"7", "4", "0">>, <<"I", "N", "N">>}

\* lines 246-252 and 105-111: onChange of the search box, then the effect on
\* searchQuery
setSearchQuery(query) ==
    /\ mainLayout.isSearchOpen
    /\ postalCodeSearch' =
          [postalCodeSearch EXCEPT
              !.searchQuery = query,
              !.searchResults =
                  IF query = postalCodeSearch.searchQuery THEN @
                  ELSE IF Len(query) >= 3 THEN searchLocations(query, mainLayout.realData)
                  ELSE << >>]
    /\ uiEvent' = Event("setSearchQuery", query)
    /\ UNCHANGED <<cache, netCount, calls, styleVars, csvVars, aiVars, mainLayout,
                   loadDataCalls, chatAssistant, dataExplorer>>

\* centres Math.random() can give a top location (lines 44-47)
RandomCentres ==
    {LatLng(Num(491327), Num(92009)), LatLng(Num(491526), Num(92208))}

\* lines 33-51: one mapped feature; the geometry is kept by its type
TopLocation(feature, index, centre) ==
    [id |-> index,
     rank |-> IF Truthy(Prop(feature.properties, "rank"))
              THEN feature.properties.rank ELSE Num(index + 1),
     score |-> IF Truthy(Prop(feature.properties, "final_score"))
               THEN feature.properties.final_score ELSE Num(0),
     coordinates |-> feature.geometry,
     center |-> centre]

\* lines 30-54: the effect on realData.  Reading a property of a missing
\* properties object throws; the error leaves the effect and React removes
\* the page.
topLocationsEffect(centres) ==
    /\ mainLayout.realData # Null
    /\ postalCodeSearch # NotMounted
    /\ postalCodeSearch.topLocationsEffect = "idle"
    /\ LET topLocations == Prop(mainLayout.realData.mapLayers, "topLocations")
           features == IF ~Nullish(topLocations) /\ "features" \in DOMAIN topLocations
                       THEN Slice(topLocations.features, 20) ELSE << >>
       IN  /\ centres \in [1..Len(features) -> RandomCentres]
           /\ postalCodeSearch' =
                 IF \E i \in 1..Len(features) : Nullish(features[i].properties)
                 THEN NotMounted
                 ELSE [postalCodeSearch EXCEPT
                          !.topLocationsEffect = "done",
                          !.topLocations =
                              IF features = << >> THEN @
                              ELSE [i \in 1..Len(features) |->
                                       TopLocation(features[i], i - 1, centres[i])]]
    /\ UNCHANGED <<cache, netCount, calls, styleVars, csvVars, aiVars, mainLayout,
                   loadDataCalls, chatAssistant, dataExplorer, uiEvent>>

\* MainLayout.jsx line 201: the sidebar button opens the search
openSearch ==
    /\ postalCodeSearch # NotMounted
    /\ mainLayout' = [mainLayout EXCEPT !.isSearchOpen = TRUE]
    /\ uiEvent' = NoEvent
    /\ UNCHANGED <<cache, netCount, calls, styleVars, csvVars, aiVars, loadDataCalls,
                   chatAssistant, postalCodeSearch, dataExplorer>>

\* MainLayout.jsx lines 59-65
SelectLocation(layout, locationData) ==
    [layout EXCEPT
        !.mapCenter = locationData.center,
        !.mapZoom = locationData.zoom,
        !.selectedLocation = IF Truthy(Prop(locationData, "location"))
                             THEN locationData.location
                             ELSE Prop(locationData, "area"),
        !.isSearchOpen = FALSE,
        !.activeView = "map"]

\* PostalCodeSearch.jsx lines 168-185, with MainLayout.handleLocationSelect as
\* its onLocationSelect prop
handleLocationSelect(result) ==
    /\ mainLayout.isSearchOpen
    /\ postalCodeSearch # NotMounted
    /\ postalCodeSearch' = [postalCodeSearch EXCEPT !.selectedArea = result]
    /\ mainLayout' =
          IF result.type = "postal_code"
          THEN SelectLocation(mainLayout,
                              [center |-> Prop(result, "center"), bounds |-> Undefined,
                               zoom |-> 14, area |-> result])
          ELSE IF result.type = "tree_location"
          THEN SelectLocation(mainLayout,
                              [center |-> Prop(result, "coordinates"), bounds |-> Null,
                               zoom |-> 16, location |-> result])
          ELSE mainLayout
    /\ chatAssistant' = RenderChat(mainLayout'.activeView)
    /\ dataExplorer' = RenderDataExplorer(mainLayout'.activeView)
    /\ uiEvent' = Event("handleLocationSelect", result)
    /\ UNCHANGED <<cache, netCount, calls, styleVars, csvVars, aiVars, loadDataCalls>>

\* lines 264-284: a quick-access postal code button, shown while the search
\* box is empty
selectPostalCode(k) ==
    /\ postalCodeSearch # NotMounted
    /\ postalCodeSearch.searchQuery = << >>
    /\ k \in 1..Len(postalCodeAreas)
    /\ handleLocationSelect(PostalResult(postalCodeAreas[k]))

\* lines 295-314: a Top Scoring Locations button, shown while the search box
\* is empty
selectTopLocation(k) ==
    /\ postalCodeSearch # NotMounted
    /\ postalCodeSearch.searchQuery = << >>
    /\ k \in 1..Len(Slice(postalCodeSearch.topLocations, 10))
    /\ handleLocationSelect([type |-> "tree_location",
                             center |-> postalCodeSearch.topLocations[k].center,
                             zoom |-> 16,
                             location |-> postalCodeSearch.topLocations[k]])

\* lines 358-370: a search result is clicked
selectSearchResult(k) ==
    /\ postalCodeSearch # NotMounted
    /\ k \in 1..Len(postalCodeSearch.searchResults)
    /\ handleLocationSelect(postalCodeSearch.searchResults[k])

-----------------------------------------------------------------------------
(* The search model: the page loads its data while the user opens the       *)
(* search, types and selects                                                *)

\* top_100.geojson with the properties the search reads
SearchTop100 ==
    FeatureCollection(
        <<Feature("Point",
                  [t |-> "object", final_score |-> Num(85), rank |-> Num(1),
                   postal_code |-> Chars(<<"7", "4", "0", "7", "2">>),
                   area_name |-> Chars(<<"I", "n", "n", "e", "n", "s", "t", "a", "d", "t">>)])>>)

SearchOutcomes(file) ==
    {[kind |-> "ok",
      body |-> IF file = "top_100.geojson" THEN SearchTop100
               ELSE EmptyFeatureCollection],
     [kind |-> "network_error", body |-> Undefined]}

\* most top locations a loaded page lists
MaxTopLocations == 1

NextSearch ==
    \/ loadData
    \/ \E ij \in Fetching :
          \E o \in SearchOutcomes(calls[ij[1]].gets[ij[2]].file) :
              FetchSettle(ij[1], ij[2], o)
    \/ \E centres \in UNION {[1..n -> RandomCentres] : n \in 0..MaxTopLocations} :
          topLocationsEffect(centres)
    \/ openSearch
    \/ \E query \in SearchQueries : setSearchQuery(query)
    \/ \E k \in 1..Len(postalCodeAreas) : selectPostalCode(k)
    \/ \E k \in 1..MaxTopLocations : selectTopLocation(k)
    \/ \E k \in 1..Len(postalCodeAreas) : selectSearchResult(k)

SpecSearch == Init /\ [][NextSearch]_vars

-----------------------------------------------------------------------------
(* DataExplorer *)

\* DataExplorer.jsx lines 57-135: the keys of layerConfig
LayerConfigKeys ==
    {"buildings", "buildingsFresh", "roads", "roadsFresh", "trees", "fire", "water",
     "plantable", "plantableFresh", "topLocations", "topLocationsFresh"}

\* layerVisibility[key], undefined when the key is missing
Visible(layerVisibility, key) == key \in DOMAIN layerVisibility /\ layerVisibility[key]

\* layerData?.features?.length > 0 for realData?.mapLayers?.[key]
HasData(realData, key) ==
    /\ ~Nullish(realData)
    /\ key \in DOMAIN realData.mapLayers
    /\ key # "t"
    /\ ~Nullish(realData.mapLayers[key])
    /\ "features" \in DOMAIN realData.mapLayers[key]
    /\ Len(realData.mapLayers[key].features) > 0

\* lines 326-340: the GeoJSON layers the map shows, one for each entry of
\* realData.mapLayers that is visible and has features
Rendered(explorer, realData, key) ==
    /\ explorer # NotMounted
    /\ HasData(realData, key)
    /\ Visible(explorer.layerVisibility, key)

\* lines 50-55, from the eye button of a layer that has data (line 219)
toggleLayer(layerName) ==
    /\ dataExplorer # NotMounted
    /\ HasData(mainLayout.realData, layerName)
    /\ dataExplorer' =
          [dataExplorer EXCEPT !.layerVisibility =
              [k \in DOMAIN @ \cup {layerName} |->
                  IF k = layerName THEN ~Visible(@, layerName) ELSE @[k]]]
    /\ uiEvent' = Event("toggleLayer", layerName)
    /\ UNCHANGED <<cache, netCount, calls, styleVars, csvVars, aiVars, mainLayout,
                   loadDataCalls, chatAssistant, postalCodeSearch>>

\* lines 286-296 (visible = TRUE) and 298-308 (visible = FALSE): the new
\* object has the keys of layerConfig only
setAllLayers(visible) ==
    /\ dataExplorer # NotMounted
    /\ dataExplorer' =
          [dataExplorer EXCEPT !.layerVisibility = [k \in LayerConfigKeys |-> visible]]
    /\ uiEvent' = Event(IF visible THEN "showAllLayers" ELSE "hideAllLayers", Undefined)
    /\ UNCHANGED <<cache, netCount, calls, styleVars, csvVars, aiVars, mainLayout,
                   loadDataCalls, chatAssistant, postalCodeSearch>>

showAllLayers == setAllLayers(TRUE)

hideAllLayers == setAllLayers(FALSE)

-----------------------------------------------------------------------------
(* The explorer model: the page loads its data while the user opens the     *)
(* data view and switches layers                                            *)

ExplorerOutcomes(file) ==
    {[kind |-> "ok", body |-> CHOOSE b \in Bodies(file) : b.features # << >>],
     [kind |-> "network_error", body |-> Undefined]}

NextExplorer ==
    \/ loadData
    \/ \E ij \in Fetching :
          \E o \in ExplorerOutcomes(calls[ij[1]].gets[ij[2]].file) :
              FetchSettle(ij[1], ij[2], o)
    \/ \E view \in {"data", "map"} : setActiveView(view)
    \/ \E key \in LayerConfigKeys : toggleLayer(key)
    \/ showAllLayers
    \/ hideAllLayers

SpecExplorer == Init /\ [][NextExplorer]_vars

-----------------------------------------------------------------------------
(* The chat model: the user moves between views, types, sends, and opens    *)
(* the locations of a reply on the map, while the AI service answers        *)

\* replies of the AI service: two locations, none, one with a latitude only
ChatBodies ==
    {ApiData(Str("Found 2 locations"),
             Array(<<LocationEntry(Summary("Final score: 87", Num(87)), Num(49), Num(9)),
                     LocationEntry(Summary("Shady corner", Undefined), Num(49), Num(9))>>),
             Str("Water weekly")),
     ApiData(Str("Nothing found"), Array(<< >>), Undefined),
     ApiData(Str("Found 1 location"),
             Array(<<LocationEntry(Undefined, Num(49), Null)>>), Undefined)}

ChatOutcomes ==
    {[kind |-> "ok", body |-> b] : b \in ChatBodies}
        \cup {[kind |-> "network_error", body |-> Undefined]}

\* the longest message list a chat can reach
MaxMessages == 1 + 2 * MaxQueries

\* the reply of a request arrives
ChatSettle ==
    \E i \in 1..Len(aiCalls) : \E o \in ChatOutcomes : \E now \in 1..MaxNow :
        PostSettle(i, o, now)

\* the menu items the chat model clicks: the chat, the view that mounts
\* DataExplorer, and one that mounts neither
ChatViews == {"chat", "data", "dashboard"}

NextChat ==
    \/ \E view \in ChatViews : setActiveView(view)
    \/ \E text \in ChatInputs : setMessage(text)
    \/ handleSendMessage
    \/ \E k \in 1..MaxMessages : handleShowLocations(k)
    \/ \E locations \in {Null, Array(<< >>)} : handleShowLocationsFromAI(locations)
    \/ ChatSettle

SpecChat == InitAI /\ [][NextChat]_vars

\* the chat model under the browser's scheduling: every request is answered
\* or fails
SpecChatFair == SpecChat /\ WF_vars(ChatSettle)

-----------------------------------------------------------------------------
(* The tabular model: parseCSV applied to every short text *)

\* longest text handed to parseCSV, the example text aside
MaxTextLen == 4

CsvAlphabet == {"a", "b", "1", ",", "\n", " "}

\* "a,b\n1,2\n3,4"
CsvExample == <<"a", ",", "b", "\n", "1", ",", "2", "\n", "3", ",", "4">>

CsvTexts ==
    UNION {[1..n -> CsvAlphabet] : n \in 0..MaxTextLen} \cup {CsvExample}

InitCSV ==
    /\ cache = [f \in Files |-> NoEntry]
    /\ netCount = [f \in Files |-> 0]
    /\ calls = << >>
    /\ styleArgs = NoStyleCall
    /\ styleResult = Undefined
    /\ styleLog = {}
    /\ csvText \in CsvTexts
    /\ csvRecords = NotReturned
    /\ NoQuery
    /\ PageLoaded

ParseCSV ==
    /\ csvRecords = NotReturned
    /\ csvRecords' = parseCSV(csvText)
    /\ UNCHANGED <<cache, netCount, calls, styleVars, csvText, aiVars, uiVars>>

NextCSV == ParseCSV

SpecCSV == InitCSV /\ [][NextCSV]_vars

\* the lines of a text: the pieces between newlines, a final newline ending
\* the last line
TextLines(text) ==
    LET pieces == Split(text, "\n")
    IN  IF Len(pieces) > 1 /\ pieces[Len(pieces)] = << >>
        THEN SubSeq(pieces, 1, Len(pieces) - 1)
        ELSE pieces

\* C13: the first line of the text is the header; every following line yields
\* exactly one record, in line order, whose keys are the header names and
\* whose values are the fields of that line, taken by position, as strings;
\* "a,b\n1,2\n3,4" yields {a:"1",b:"2"} and {a:"3",b:"4"}.
C13_ParseCSV ==
    (csvRecords # NotReturned /\ csvRecords # Undefined) =>
        LET lines == TextLines(csvText)
            headers == Split(lines[1], ",")
            items == csvRecords.items
        IN  /\ Len(items) = Len(lines) - 1
            /\ \A k \in 1..Len(items) :
                  LET values == Split(lines[k + 1], ",")
                  IN  /\ DOMAIN items[k] = {headers[i] : i \in 1..Len(headers)}
                      /\ \A h \in DOMAIN items[k] :
                            \E i \in 1..Len(headers) :
                                /\ headers[i] = h
                                /\ i <= Len(values)
                                /\ items[k][h] = Chars(values[i])
            /\ csvText = CsvExample =>
                  items = << (<<"a">> :> Chars(<<"1">>)) @@ (<<"b">> :> Chars(<<"2">>)),
                             (<<"a">> :> Chars(<<"3">>)) @@ (<<"b">> :> Chars(<<"4">>)) >>

-----------------------------------------------------------------------------
(* getFeatureStyle *)

\* the getFeatureStyle call of this behaviour has returned
FeatureStyleReturned ==
    styleArgs.op = "getFeatureStyle" /\ styleResult # NotReturned

\* the feature carries a number as final_score
NumericScore(feature) ==
    /\ Truthy(feature.properties)
    /\ feature.properties.final_score.t = "number"

\* own enumerable properties of a value: a descriptor's keys; a function or
\* Object.prototype has none
OwnEnumerable(v) == IF "t" \in DOMAIN v THEN {} ELSE DOMAIN v

\* C11: for a feature whose final_score is a number s, getFeatureStyle sets
\* color and fillColor to #DC143C when s >= 80, else #FF6B35 when s >= 60,
\* else #CCFF00 when s >= 40, else #90EE90; 85 and 80 get the first colour,
\* 60 the second and 40 the third.
C11_ScoreLadder ==
    (FeatureStyleReturned /\ NumericScore(styleArgs.feature)) =>
        LET s == styleArgs.feature.properties.final_score.n
            expected == CASE s >= 80 -> "#DC143C"
                          [] s < 80 /\ s >= 60 -> "#FF6B35"
                          [] s < 60 /\ s >= 40 -> "#CCFF00"
                          [] s < 40 -> "#90EE90"
        IN  /\ styleResult.color = expected
            /\ styleResult.fillColor = expected
            /\ s \in {80, 85} => styleResult.color = "#DC143C"
            /\ s = 60 => styleResult.color = "#FF6B35"
            /\ s = 40 => styleResult.color = "#CCFF00"

\* a feature scored exactly 60 on the topLocations layer has been styled orange
C11_Witness ==
    /\ FeatureStyleReturned
    /\ styleArgs.layerType = "topLocations"
    /\ styleArgs.feature = Scored(60)
    /\ styleResult.color = "#FF6B35"
    /\ styleResult.fillColor = "#FF6B35"

\* C12: the result of getFeatureStyle has the own properties of
\* getLayerStyle(layerType) with the same values in every field other than
\* color and fillColor (fillOpacity, weight and radius included), and it is
\* exactly getLayerStyle(layerType) when the feature has no properties or no
\* final_score.
C12_FeatureStyleFrame ==
    FeatureStyleReturned =>
        LET base == getLayerStyle(styleArgs.layerType)
            feature == styleArgs.feature
            Field(v, k) == IF k \in OwnEnumerable(v) THEN Num(v[k]) ELSE Undefined
        IN  /\ OwnEnumerable(styleResult) \ {"color", "fillColor"}
                    = OwnEnumerable(base) \ {"color", "fillColor"}
            /\ \A k \in (OwnEnumerable(base) \cup {"fillOpacity", "weight", "radius"})
                            \ {"color", "fillColor"} :
                    Field(styleResult, k) = Field(base, k)
            /\ (~Truthy(feature.properties) \/ feature.properties.final_score = Undefined)
                    => styleResult = base

\* a scored feature on a layer whose descriptor has a radius was recoloured and
\* kept opacity, weight and radius
C12_Witness ==
    /\ FeatureStyleReturned
    /\ styleArgs.layerType = "topLocationsFresh"
    /\ styleArgs.feature = Scored(45)
    /\ styleResult = [color |-> "#CCFF00", fillColor |-> "#CCFF00",
                      fillOpacity |-> 9, weight |-> 3, radius |-> 8]

-----------------------------------------------------------------------------
(* getTreeLocations *)

\* the success response of the AI recommendation contract: summary_of_results
\* a string, locations a list of {summary: string, latitude: number,
\* longitude: number}, tip a string or absent
WellFormedResponse(apiData) ==
    /\ apiData.t = "object"
    /\ {"summary_of_results", "locations", "tip"} \subseteq DOMAIN apiData
    /\ apiData.summary_of_results.t = "string"
    /\ apiData.tip.t \in {"string", "undefined"}
    /\ apiData.locations.t = "array"
    /\ \A i \in 1..Len(apiData.locations.items) :
          LET location == apiData.locations.items[i]
          IN  /\ location.t = "object"
              /\ location.summary.t = "string"
              /\ location.latitude.t = "number"
              /\ location.longitude.t = "number"

\* the request of a call failed: non-2xx, network failure, unparsable body or
\* a body that is not a success response
RequestFailed(call) ==
    \/ call.outcome.kind \in FailureKinds
    \/ (call.outcome.kind = "ok" /\ ~WellFormedResponse(call.outcome.body))

\* C14: when the POST of a getTreeLocations call gets a non-2xx status, fails
\* at the network level or returns an unparsable or malformed body, the call
\* resolves with success = false, the fixed message and an empty locations
\* list; no call rejects and each call issues exactly one POST.
C14_AiFailure ==
    /\ aiPosts = Len(aiCalls)
    /\ \A i \in 1..Len(aiCalls) :
          /\ aiCalls[i].state \in {"posting", "resolved"}
          /\ (aiCalls[i].state = "resolved" /\ RequestFailed(aiCalls[i])) =>
                aiCalls[i].result = AiUnavailable

-----------------------------------------------------------------------------
(* Startup *)

\* C15: in the startup flow (MainLayout loading loadMapLayers and
\* loadStatistics) there is never a state in which two fetches for the same
\* filename are in flight at the same time.
C15_NoDuplicateInFlight ==
    \A f \in Files :
        Cardinality({ij \in Fetching : calls[ij[1]].gets[ij[2]].file = f}) <= 1

-----------------------------------------------------------------------------
(* The cache *)

\* C16: once a filename is a key of the cache it stays a key of the cache in
\* every later state of the session: no step removes an entry.
C16_NeverEvicted ==
    [][\A f \in Files : cache[f] # NoEntry => cache'[f] # NoEntry]_vars

\* a file is cached, one request for it succeeded, another one failed, and no
\* request is in flight any more
C16_Witness ==
    \E f \in Files :
        /\ cache[f] # NoEntry
        /\ \E ij \in AllGets : GetAt(ij).file = f /\ GetAt(ij).state = "fulfilled"
                                 /\ GetAt(ij).fetched /\ GetAt(ij).failed
        /\ \E ij \in AllGets : GetAt(ij).file = f /\ GetAt(ij).state = "fulfilled"
                                 /\ GetAt(ij).fetched /\ ~GetAt(ij).failed
        /\ Fetching = {}

\* C17: once the cache holds a payload for a filename, no later step (the
\* completion of another get of the same file that was already in flight
\* included) replaces it with a different payload.
C17_CachedPayloadImmutable ==
    [][\A f \in Files : cache[f] # NoEntry => cache'[f] = cache[f]]_vars

-----------------------------------------------------------------------------
(* loadMapLayers and completion order *)

\* the value of the get of a call for a file
PayloadOf(call, file) ==
    LET j == CHOOSE k \in 1..Len(call.gets) : call.gets[k].file = file
    IN  call.gets[j].value

\* C18: whatever the order in which the four essential fetches complete,
\* loadMapLayers stays pending while one of them is in flight, resolves in the
\* step in which the last one completes, and then returns under topLocations,
\* topLocationsFresh, heatPriorityZones and waterBodies the payloads of
\* top_100.geojson, top_100_fresh.geojson, heat_priority_zones.geojson and
\* water_bodies.geojson.
C18_CompletionOrderIrrelevant ==
    [][\A i \in 1..Len(calls') :
          calls'[i].op = "loadMapLayers" =>
              LET c == calls'[i]
                  inFlight == \E j \in 1..Len(c.gets) : c.gets[j].state = "fetching"
              IN  /\ inFlight => c.status = "pending"
                  /\ ~inFlight => c.status = "resolved"
                  /\ c.status = "resolved" =>
                        /\ c.result.topLocations = PayloadOf(c, "top_100.geojson")
                        /\ c.result.topLocationsFresh = PayloadOf(c, "top_100_fresh.geojson")
                        /\ c.result.heatPriorityZones = PayloadOf(c, "heat_priority_zones.geojson")
                        /\ c.result.waterBodies = PayloadOf(c, "water_bodies.geojson")
                  /\ (i <= Len(calls) /\ calls[i].status = "resolved") => c = calls[i]]_vars

\* the fetches of a loadMapLayers call completing in the reverse of the order
\* they were issued in: the last two are done, the first two still in flight
C18_Witness ==
    \E i \in 1..Len(calls) :
        /\ calls[i].op = "loadMapLayers" /\ calls[i].status = "pending"
        /\ calls[i].gets[1].state = "fetching" /\ calls[i].gets[2].state = "fetching"
        /\ calls[i].gets[3].state = "fulfilled" /\ calls[i].gets[3].value = HeatZones
        /\ calls[i].gets[4].state = "fulfilled" /\ calls[i].gets[4].value = WaterBodies

-----------------------------------------------------------------------------
(* loadLargeDataset *)

\* a loadLargeDataset call for the file has resolved with a fetched payload
HeavyLoaded(f) ==
    \E i \in 1..Len(calls) :
        /\ calls[i].op = "loadLargeDataset" /\ calls[i].status = "resolved"
        /\ calls[i].gets[1].file = f
        /\ calls[i].gets[1].fetched /\ ~calls[i].gets[1].failed

\* C19: for every registry name loadLargeDataset behaves as a get of the mapped
\* file: it never rejects and never returns null, a successful fetch returns
\* the payload and caches it under the filename, a failed fetch returns the
\* empty feature collection, a call answered from the cache returns the cached
\* payload, and once a call for a name has succeeded no later step issues a
\* request for its file.
C19_HeavyBehavesAsGet ==
    [][/\ \A i \in 1..Len(calls') :
            LET c == calls'[i]
            IN  (c.op = "loadLargeDataset" /\ c.arg \in DOMAIN datasets) =>
                  /\ Len(c.gets) = 1
                  /\ c.gets[1].file = datasets[c.arg].s
                  /\ c.status # "rejected"
                  /\ c.status = "resolved" <=> c.gets[1].state = "fulfilled"
                  /\ c.status = "resolved" =>
                        /\ c.result # Null
                        /\ c.result = c.gets[1].value
                        /\ c.gets[1].failed => c.result = EmptyFeatureCollection
                        /\ (c.gets[1].fetched /\ ~c.gets[1].failed) =>
                              /\ c.result \in Bodies(c.gets[1].file)
                              /\ cache'[c.gets[1].file] = c.result
                        /\ ~c.gets[1].fetched => c.result = cache'[c.gets[1].file]
       /\ \A f \in Files : HeavyLoaded(f) => netCount'[f] = netCount[f]]_vars

\* two calls for one name: the first fetched and cached the file, the second
\* was answered from the cache without a request
C19_Witness ==
    /\ Len(calls) = 2
    /\ calls[1].op = "loadLargeDataset" /\ calls[2].op = "loadLargeDataset"
    /\ calls[1].arg = "scoredLocationsFresh" /\ calls[2].arg = "scoredLocationsFresh"
    /\ calls[1].status = "resolved" /\ calls[2].status = "resolved"
    /\ calls[1].gets[1].fetched /\ ~calls[1].gets[1].failed
    /\ ~calls[2].gets[1].fetched
    /\ calls[2].result = HeavyLayer
    /\ cache["scored_locations_fresh.geojson"] = HeavyLayer
    /\ netCount["scored_locations_fresh.geojson"] = 1

-----------------------------------------------------------------------------
(* Purity of the LayerStyleResolver *)

\* C20: a step in which getLayerStyle or getFeatureStyle returns issues no
\* request, leaves the cache and the calls in flight unchanged and does not
\* modify the feature it was given; calls with equal arguments returned equal
\* descriptors, whatever the cache held and whichever calls came before.
C20_ResolverPure ==
    [][/\ (styleResult = NotReturned /\ styleResult' # NotReturned) =>
            /\ cache' = cache
            /\ netCount' = netCount
            /\ calls' = calls
            /\ styleArgs' = styleArgs
       /\ \A e1, e2 \in styleLog' : e1.args = e2.args => e1.result = e2.result]_vars

\* the same getFeatureStyle call returned the same descriptor with an empty
\* cache and with top_100.geojson cached
C20_Witness ==
    \E e1, e2 \in styleLog :
        /\ e1.args.op = "getFeatureStyle" /\ e1.args = e2.args
        /\ e1.cached = {} /\ e2.cached = {"top_100.geojson"}
        /\ e1.result = e2.result
        /\ e1.result.color = "#DC143C"

-----------------------------------------------------------------------------
(* Demo fallback *)

\* C21: when the AI endpoint is unavailable (network failure or non-2xx), the
\* call is answered with a demo reply that carries sample locations, not with
\* the error result.
C21_DemoFallback ==
    \A i \in 1..Len(aiCalls) :
        (aiCalls[i].state = "resolved"
            /\ aiCalls[i].outcome.kind \in {"network_error", "http_error"}) =>
                /\ aiCalls[i].result # AiUnavailable
                /\ aiCalls[i].result.success
                /\ Len(aiCalls[i].result.locations.items) > 0

-----------------------------------------------------------------------------
(* MainLayout.loadData *)

\* the mount effect has run and none of its requests is in flight
StartupSettled == loadDataCalls # << >> /\ Fetching = {}

\* realData holds both the map layers and the statistics
RealDataLoaded ==
    /\ mainLayout.realData # Null
    /\ ~Nullish(mainLayout.realData.mapLayers)
    /\ ~Nullish(mainLayout.realData.statistics)

\* C27: startup always ends loaded.  Once the requests issued at mount have
\* settled, loading is false; whenever loading is false realData holds both
\* mapLayers and statistics, whatever mix of successes and failures the
\* requests met; and every startup reaches that state.
C27_StartupEndsLoaded ==
    /\ [](StartupSettled => ~mainLayout.loading)
    /\ [](~mainLayout.loading => RealDataLoaded)
    /\ (loadDataCalls # << >>) ~> (~mainLayout.loading /\ RealDataLoaded)

\* startup over with one request failed and another answered
C27_Witness ==
    /\ StartupSettled
    /\ ~mainLayout.loading
    /\ RealDataLoaded
    /\ \E i \in 1..Len(calls) : \E j \in 1..Len(calls[i].gets) : calls[i].gets[j].failed
    /\ \E i \in 1..Len(calls) : \E j \in 1..Len(calls[i].gets) :
          calls[i].gets[j].fetched /\ ~calls[i].gets[j].failed

-----------------------------------------------------------------------------
(* MainLayout.handleShowLocationsFromAI *)

\* this step is a run of the named handler
Handled(name) == uiEvent' # uiEvent /\ uiEvent'.name = name

\* C22: showing AI locations on the map.  A call with a non-empty list leaves
\* activeView = "map", aiLocations the list and selectedLocation the first
\* location tagged source "ai"; mapCenter and mapZoom become the first
\* location's coordinates and 16 when both coordinates are non-null and are
\* unchanged otherwise.  A call with null or an empty list changes none of
\* the five.
C22_ShowLocationsFrame ==
    [][Handled("handleShowLocationsFromAI") =>
        LET locations == uiEvent'.arg
        IN  IF Truthy(locations) /\ Len(locations.items) > 0
            THEN LET first == locations.items[1]
                 IN  /\ mainLayout'.activeView = "map"
                     /\ mainLayout'.aiLocations = locations
                     /\ mainLayout'.selectedLocation.source = "ai"
                     /\ \A k \in DOMAIN first : mainLayout'.selectedLocation[k] = first[k]
                     /\ IF ~Nullish(first.lat) /\ ~Nullish(first.lng)
                        THEN /\ mainLayout'.mapCenter = LatLng(first.lat, first.lng)
                             /\ mainLayout'.mapZoom = 16
                        ELSE /\ mainLayout'.mapCenter = mainLayout.mapCenter
                             /\ mainLayout'.mapZoom = mainLayout.mapZoom
            ELSE /\ mainLayout'.activeView = mainLayout.activeView
                 /\ mainLayout'.aiLocations = mainLayout.aiLocations
                 /\ mainLayout'.selectedLocation = mainLayout.selectedLocation
                 /\ mainLayout'.mapCenter = mainLayout.mapCenter
                 /\ mainLayout'.mapZoom = mainLayout.mapZoom]_vars

\* a list whose first location has a latitude but no longitude was shown: the
\* map changed view and selection and kept its centre and zoom
C22_Witness ==
    /\ uiEvent.name = "handleShowLocationsFromAI"
    /\ Truthy(uiEvent.arg)
    /\ Len(uiEvent.arg.items) > 0
    /\ ~Nullish(uiEvent.arg.items[1].lat)
    /\ Nullish(uiEvent.arg.items[1].lng)
    /\ mainLayout.activeView = "map"
    /\ mainLayout.aiLocations = uiEvent.arg
    /\ mainLayout.selectedLocation # Null
    /\ mainLayout.mapCenter = MainLayoutInitial.mapCenter
    /\ mainLayout.mapZoom = 13

-----------------------------------------------------------------------------
(* PostalCodeSearch.searchLocations *)

\* the postal-code areas a query matches
MatchingAreas(query) ==
    {k \in 1..Len(postalCodeAreas) :
        \/ Includes(postalCodeAreas[k].code, query)
        \/ Includes(ToLowerCase(postalCodeAreas[k].name), ToLowerCase(query))}

\* the loaded statistics hold a top location whose postal code or area name
\* matches the query
LoadedTopLocationMatches(query) ==
    /\ mainLayout.realData # Null
    /\ ~Nullish(mainLayout.realData.statistics.rawData)
    /\ LET features == mainLayout.realData.statistics.rawData.topLocations.features
       IN  \E i \in 1..Len(features) :
               \/ Includes(features[i].properties.postal_code.chars, query)
               \/ Includes(ToLowerCase(features[i].properties.area_name.chars),
                           ToLowerCase(query))

\* the results are the matching areas, in order, then at most 10 tree locations
ResultsShape(results, query) ==
    \E n \in 0..Len(results) :
        /\ n = Cardinality(MatchingAreas(query))
        /\ \A i \in 1..n : /\ results[i].type = "postal_code"
                            /\ \E k \in MatchingAreas(query) :
                                  results[i].code = postalCodeAreas[k].code
        /\ \A i, j \in 1..n : results[i].code = results[j].code => i = j
        /\ \A i \in (n + 1)..Len(results) : results[i].type = "tree_location"
        /\ Len(results) - n <= 10

\* C23: search by postal code or location.  searchResults is empty whenever
\* the query has fewer than 3 characters; a query of 3 or more characters
\* gives the postal-code areas whose code or name (case-insensitively)
\* contains it, followed by up to 10 tree locations, and once the startup data
\* is loaded a top location of the statistics that matches the query is among
\* the results.
C23_Search ==
    /\ [](Len(postalCodeSearch.searchQuery) < 3 => postalCodeSearch.searchResults = << >>)
    /\ [][(Handled("setSearchQuery") /\ Len(uiEvent'.arg) >= 3
              /\ uiEvent'.arg # postalCodeSearch.searchQuery) =>
            /\ ResultsShape(postalCodeSearch'.searchResults, uiEvent'.arg)
            /\ LoadedTopLocationMatches(uiEvent'.arg) =>
                  \E i \in 1..Len(postalCodeSearch'.searchResults) :
                      postalCodeSearch'.searchResults[i].type = "tree_location"]_vars

-----------------------------------------------------------------------------
(* PostalCodeSearch.handleLocationSelect *)

\* a latitude/longitude pair
IsLatLng(v) ==
    /\ "t" \in DOMAIN v
    /\ v.t = "array"
    /\ Len(v.items) = 2
    /\ \A i \in 1..2 : v.items[i].t = "number"

\* C28: selecting a location always gives the map a defined centre.  After a
\* selection in PostalCodeSearch (a postal-code button, a top-scoring-location
\* button or a search result) isSearchOpen is false, activeView is "map",
\* mapCenter is the latitude/longitude pair of the selected item, and mapZoom
\* is 14 for a postal-code area and 16 for a tree location.
C28_SelectionCentre ==
    [][Handled("handleLocationSelect") =>
        LET result == uiEvent'.arg
        IN  /\ ~mainLayout'.isSearchOpen
            /\ mainLayout'.activeView = "map"
            /\ IsLatLng(mainLayout'.mapCenter)
            /\ mainLayout'.mapCenter \in {Prop(result, "center"), Prop(result, "coordinates")}
            /\ mainLayout'.mapZoom = IF result.type = "postal_code" THEN 14 ELSE 16]_vars

-----------------------------------------------------------------------------
(* DataExplorer layers *)

\* the keys of realData.mapLayers
MapLayerKeys == DOMAIN loadMapLayersReturn(<<Get("", "", "", FALSE, FALSE, Null),
                                             Get("", "", "", FALSE, FALSE, Null),
                                             Get("", "", "", FALSE, FALSE, Null),
                                             Get("", "", "", FALSE, FALSE, Null)>>) \ {"t"}

\* C29: after "Show All Layers" every layer of realData.mapLayers with at
\* least one feature is visible and rendered; after "Hide All Layers" none is
\* rendered; toggleLayer(name) flips the visibility of that layer and leaves
\* the visibility of every other layer unchanged.
C29_ExplorerLayers ==
    /\ [][Handled("showAllLayers") =>
            \A key \in MapLayerKeys :
                HasData(mainLayout'.realData, key) =>
                    Rendered(dataExplorer', mainLayout'.realData, key)]_vars
    /\ [][Handled("hideAllLayers") =>
            \A key \in MapLayerKeys :
                ~Rendered(dataExplorer', mainLayout'.realData, key)]_vars
    /\ [][Handled("toggleLayer") =>
            \A key \in MapLayerKeys \cup LayerConfigKeys :
                Visible(dataExplorer'.layerVisibility, key) =
                    IF key = uiEvent'.arg
                    THEN ~Visible(dataExplorer.layerVisibility, key)
                    ELSE Visible(dataExplorer.layerVisibility, key)]_vars

-----------------------------------------------------------------------------
(* ChatAssistant *)

\* the requests of chat instance n that are in flight
InFlight(n) ==
    {i \in 1..Len(aiCalls) :
        "chat" \in DOMAIN aiCalls[i] /\ aiCalls[i].chat = n /\ aiCalls[i].state = "posting"}

\* C24: at most one AI request is in flight per chat.  handleSendMessage
\* appends no message and issues no request when the trimmed input is empty
\* or while isLoading is true, so a chat never has two requests in flight.
C24_OneRequestPerChat ==
    /\ [](\A n \in 1..(MaxQueries + 1) : Cardinality(InFlight(n)) <= 1)
    /\ [][(Handled("handleSendMessage")
             /\ (Trim(uiEvent'.arg) = << >> \/ chatAssistant.isLoading)) =>
            /\ chatAssistant' = chatAssistant
            /\ aiCalls' = aiCalls
            /\ aiPosts' = aiPosts]_vars

\* a send was refused while the reply of the previous one was awaited
C24_Witness ==
    /\ chatAssistant # NotMounted
    /\ chatAssistant.isLoading
    /\ uiEvent.name = "handleSendMessage"
    /\ Trim(uiEvent.arg) # << >>
    /\ chatAssistant.message = uiEvent.arg
    /\ Cardinality(InFlight(chatAssistant.instance)) = 1

\* the ids of the messages of the mounted chat
MessageIds == {chatAssistant.messages[k].id : k \in 1..Len(chatAssistant.messages)}

\* C26: chat message ids are unique.  In every reachable state of a mounted
\* ChatAssistant no two entries of its messages list have the same id.
C26_UniqueMessageIds ==
    chatAssistant # NotMounted =>
        \A k, l \in 1..Len(chatAssistant.messages) :
            chatAssistant.messages[k].id = chatAssistant.messages[l].id => k = l

\* two questions were asked and answered in one chat
C26_Witness ==
    /\ chatAssistant # NotMounted
    /\ Len(chatAssistant.messages) = 5
    /\ MessageIds = 1..5
    /\ ~chatAssistant.isLoading

\* the chat that sent request i shows its reply right after the question
Answered(i) ==
    /\ chatAssistant # NotMounted
    /\ chatAssistant.instance = aiCalls[i].chat
    /\ ~chatAssistant.isLoading
    /\ \E k \in 1..(Len(chatAssistant.messages) - 1) :
          /\ chatAssistant.messages[k].type = "user"
          /\ chatAssistant.messages[k].id = aiCalls[i].userMessageId
          /\ chatAssistant.messages[k + 1].type = "assistant"
          /\ chatAssistant.messages[k + 1].id = aiCalls[i].userMessageId + 1

\* C25: every accepted chat send is answered.  An accepted send appends one
\* user message and sets isLoading; when the AI call settles one assistant
\* message is appended after that user message and isLoading is false again;
\* an assistant message has hasLocations exactly when its locations are a
\* non-empty array.
C25_EverySendAnswered ==
    /\ [][(Handled("handleSendMessage") /\ SendAccepted) =>
            /\ Len(chatAssistant'.messages) = Len(chatAssistant.messages) + 1
            /\ chatAssistant'.messages[Len(chatAssistant'.messages)].type = "user"
            /\ chatAssistant'.isLoading]_vars
    /\ [](chatAssistant # NotMounted =>
            \A k \in 1..Len(chatAssistant.messages) :
                "hasLocations" \in DOMAIN chatAssistant.messages[k] =>
                    (chatAssistant.messages[k].hasLocations <=>
                        (/\ chatAssistant.messages[k].locations.t = "array"
                         /\ Len(chatAssistant.messages[k].locations.items) > 0)))
    /\ \A i \in 1..MaxQueries :
          (Len(aiCalls) >= i /\ aiCalls[i].state = "posting") ~>
              (Len(aiCalls) >= i /\ Answered(i))

====
